---- MODULE Spec2Model ----
(***************************************************************************)
(* Model of the open-council debate orchestration engine.                  *)
(*                                                                         *)
(* The commands start_debate and cancel_debate (commands.rs) and the task  *)
(* run_debate with its Round Runner run_sequential_round (debate.rs) are   *)
(* modelled as one process per spawned run.  A run takes one step per      *)
(* critical section / await point of the code: between two steps any       *)
(* command or any other run may interleave, exactly as the tokio runtime   *)
(* and the AppState mutex allow.                                           *)
(*                                                                         *)
(* The pure functions call_agent_with_retry, merge_summary (decisions.rs)  *)
(* and parse_moderator_recommendation (debate.rs) are operators; each is   *)
(* also evaluated on its own, over bounded sets of arguments, by the       *)
(* specifications SpecRetry, SpecMerge and SpecParse.                      *)
(***************************************************************************)
EXTENDS Integers, Sequences, FiniteSets, TLC

\* ------------------------------------------------------------------ bounds
\* number of debater personas in the registry
NumDebaters == 2
\* number of calls that exhaust their retries, over all runs
MaxFailures == 1
\* the largest max_retries call_agent_with_retry is evaluated with
MaxRetriesArg == 3
\* the longest array an update carries for a section
MaxItems == 2
\* the longest moderator text, in lines
MaxLines == 3
\* the longest list of turns format_transcript is evaluated on
MaxTurns == 4

\* ------------------------------------------------------- program constants
\* the retry count handed to call_agent_with_retry
MAX_RETRIES == 2
\* the moderator's round number
MODERATOR_ROUND == 99

Decisions == {"dA", "dB"}
\* the tasks start_debate spawns, in spawn order
Runs == {1, 2}
NoRun == 0

\* registry order of the debater personas; the moderator is a separate role
AgentKeys == <<"rationalist", "advocate", "contrarian", "visionary", "pragmatist">>
Moderator == "moderator"
ErrorAgent == "error"
CancelledMsg == "Debate cancelled"
ModeratorFailedMsg == "Moderator failed after 3 retries"

\* Option<T>
None == [some |-> FALSE]
Some(v) == [some |-> TRUE, v |-> v]

\* the elements of a sequence
Range(s) == {s[i] : i \in DOMAIN s}

\* registry.iter().filter(|a| a.role == "debater")
is_debater(a) == a.role = "debater"
all_debaters_in_registry(registry) == SelectSeq(registry, is_debater)

\* faulty variant of debaters: one speaker per selected key, in selection order
debaters_in_selection_order(registry, selected_agent_keys) ==
    LET all == all_debaters_in_registry(registry)
        keys == selected_agent_keys.v
        known == SelectSeq(keys, LAMBDA k : \E i \in DOMAIN all : all[i].key = k) IN
    IF selected_agent_keys.some /\ keys # <<>>
    THEN [i \in DOMAIN known |-> CHOOSE a \in Range(all) : a.key = known[i]]
    ELSE all

\* the roster of a run: the registry's debaters whose key the selection
\* contains, in registry order; all of them without a selection or with an
\* empty one
debaters(registry, selected_agent_keys) ==
    LET contains(a) == a.key \in Range(selected_agent_keys.v) IN
    IF selected_agent_keys.some /\ selected_agent_keys.v # <<>>
    THEN SelectSeq(all_debaters_in_registry(registry), contains)
    ELSE all_debaters_in_registry(registry)

\* the selection the committee screen passes: the leading personas
DefaultSelection == Some(SubSeq(AgentKeys, 1, NumDebaters))

\* faulty variants of RoundPlan: quick_mode ignored; the second exchange dropped
RoundPlanIgnoresQuick(quick_mode) ==
    << <<1, 1>>, <<2, 1>>, <<2, 2>>, <<3, 1>> >>

RoundPlanOneExchange(quick_mode) ==
    IF quick_mode THEN << <<1, 1>> >>
    ELSE << <<1, 1>>, <<2, 1>>, <<3, 1>> >>

\* faulty variant of RoundPlan: the closing round runs under the opening's
\* coordinate
RoundPlanRepeatsOpening(quick_mode) ==
    IF quick_mode THEN << <<1, 1>> >>
    ELSE << <<1, 1>>, <<2, 1>>, <<2, 2>>, <<1, 1>> >>

\* the (round_number, exchange_number) of the successive Round Runner calls
RoundPlan(quick_mode) ==
    IF quick_mode THEN << <<1, 1>> >>
    ELSE << <<1, 1>>, <<2, 1>>, <<2, 2>>, <<3, 1>> >>

ModeratorCoord == <<MODERATOR_ROUND, 1>>

VARIABLES
    status,               \* decisions.status, per decision
    summary,              \* decisions.summary_json: NoRun = as before the debate, r = merged by run r
    brief,                \* decisions.debate_brief: NoRun = none, r = compiled by run r
    completed_at,         \* decisions.debate_completed_at is set
    rounds,               \* the debate_rounds table, a set of rows
    debate_cancel_flags,  \* AppState.debate_cancel_flags: decision -> token (NoRun = no entry)
    cancel_flag,          \* the AtomicBool created by the r-th start_debate
    run,                  \* the task spawned by the r-th start_debate
    inflight,             \* requests to the completion service that have not returned
    events,               \* what each run has emitted, in order
    pure,                 \* a function evaluated on its own: its arguments and result
    summary_json,         \* decisions.summary_json: the stored text (Absent = no such decision)
    reply,                \* what the last command returned to its caller
    has_tts,              \* the configuration holds a key for the speech provider
    debate_audio,         \* the debate_audio table: the decision has a stored manifest
    agents_dir,           \* the agents directory: registry.json and the prompt files
    conversations,        \* the conversations table: the ids that exist
    messages,             \* the messages table, a set of rows
    conversation_id       \* decisions.conversation_id, per decision

vars == <<status, summary, brief, completed_at, rounds, debate_cancel_flags,
          cancel_flag, run, inflight, events, pure, summary_json, reply,
          has_tts, debate_audio, agents_dir, conversations, messages,
          conversation_id>>

\* the files and tables that no debate command and no run step writes
aside == <<agents_dir, conversations, messages, conversation_id>>

\* ------------------------------------------------------------------ helpers
Row(d, r, coord, agent) ==
    [decision_id |-> d, round_number |-> coord[1], exchange_number |-> coord[2],
     agent |-> agent, run |-> r]

Event(type, coord, agent, content) ==
    [type |-> type, round_number |-> coord[1], exchange_number |-> coord[2],
     agent |-> agent, content |-> content]

NoCoord == <<0, 0>>

Call(r, coord, agent) == [run |-> r, coord |-> coord, agent |-> agent]

IdleRun ==
    [pc |-> "idle", decision_id |-> "", quick_mode |-> FALSE,
     selected_agent_keys |-> DefaultSelection,
     debaters |-> <<>>, ci |-> 0, k |-> 0,
     all_rounds |-> <<>>, new_rounds |-> <<>>, user_prompt |-> <<>>,
     result |-> "none",
     \* history: where the run was when its token was set, the turns it
     \* persisted afterwards, the calls it started afterwards, the Round
     \* Runner / moderator invocations it made
     cancelled_at |-> <<"none", 0>>, after_cancel |-> 0, calls_after_cancel |-> 0,
     invoked |-> <<>>,
     \* history: the system prompt each started call was given
     system_prompts |-> <<>>,
     \* LiveTtsState.handles: the audio task of each saved turn
     handles |-> <<>>]

Coord(r) == RoundPlan(run[r].quick_mode)[run[r].ci]
Agent(r) == run[r].debaters[run[r].k]

Emit(r, e) == events' = [events EXCEPT ![r] = Append(@, e)]
Emit2(r, e1, e2) == events' = [events EXCEPT ![r] = Append(Append(@, e1), e2)]

\* calls whose retries were exhausted so far (placeholders and moderator failures)
FailCount ==
    Cardinality(UNION {{<<r, i>> : i \in {j \in DOMAIN events[r] :
                                      \/ events[r][j].agent = ErrorAgent
                                      \/ events[r][j].content = ModeratorFailedMsg}} :
                       r \in Runs})

\* the registry labels of the agents, by key
AgentLabels == <<"Rationalist", "Advocate", "Contrarian", "Visionary", "Pragmatist">>
LabelOf(key) ==
    IF key = Moderator THEN "Moderator"
    ELSE AgentLabels[CHOOSE i \in DOMAIN AgentKeys : AgentKeys[i] = key]

\* what one attempt (llm::call_llm_streaming_debate) returns: Ok(text) or
\* Err(e) with one of the request's error texts
AttemptResults == {"ok", "Network error", "Stream error"}

\* the per-attempt results of one wrapped call
Outcomes(max_retries) == [1..(max_retries + 1) -> AttemptResults]

\* the text returned by the attempt-th request (every request streams its own)
TextOf(attempt) == attempt

NoFailure == [agent_label |-> "", retries |-> 0, last_err |-> ""]

\* call_agent_with_retry: attempt 0..=max_retries until the first Ok; the
\* value returned and the number of requests made
RECURSIVE retry_from(_, _, _, _)
\* faulty variant of retry_from: one attempt too few
retry_from_short(agent_label, outcomes, max_retries, attempt) ==
    IF outcomes[attempt + 1] = "ok"
    THEN [ok |-> TRUE, attempts |-> attempt + 1, text |-> TextOf(attempt + 1),
          failure |-> NoFailure]
    ELSE IF attempt + 1 < max_retries
         THEN retry_from(agent_label, outcomes, max_retries, attempt + 1)
         ELSE [ok |-> FALSE, attempts |-> attempt + 1, text |-> 0,
               failure |-> [agent_label |-> agent_label, retries |-> max_retries + 1,
                            last_err |-> outcomes[attempt + 1]]]

retry_from(agent_label, outcomes, max_retries, attempt) ==
    IF outcomes[attempt + 1] = "ok"
    THEN [ok |-> TRUE, attempts |-> attempt + 1, text |-> TextOf(attempt + 1),
          failure |-> NoFailure]
    ELSE IF attempt < max_retries
         THEN retry_from(agent_label, outcomes, max_retries, attempt + 1)
         ELSE [ok |-> FALSE, attempts |-> attempt + 1, text |-> 0,
               failure |-> [agent_label |-> agent_label, retries |-> max_retries + 1,
                            last_err |-> outcomes[attempt + 1]]]

call_agent_with_retry(agent_label, outcomes, max_retries) ==
    retry_from(agent_label, outcomes, max_retries, 0)

\* faulty variant of LoadFlag: the token is never observed
LoadFlagNever(r) == FALSE

\* cancel_flag.load(Ordering::Relaxed)
LoadFlag(r) == cancel_flag[r]

\* the sections format_transcript joins: a header, or "<label>: <content>"
\* (a turn's content is identified with the turn that carries it)
Header(round_number, exchange_number) ==
    CASE round_number = 1 -> [header |-> "Round 1 (opening)", n |-> 0]
      [] round_number = 2 -> [header |-> "Round 2 (exchange {})", n |-> exchange_number]
      [] round_number = 3 -> [header |-> "Round 3 (final statements)", n |-> 0]
      [] round_number = MODERATOR_ROUND -> [header |-> "Moderator synthesis", n |-> 0]
      [] OTHER -> [header |-> "Round {}", n |-> round_number]

\* all_agents.iter().find(|a| a.key == r.agent): the label, else the key
find_label(agent) ==
    IF agent = Moderator \/ \E i \in DOMAIN AgentKeys : AgentKeys[i] = agent
    THEN LabelOf(agent) ELSE agent

TurnLine(r) == [label |-> find_label(r.agent), content |-> r]

\* faulty variant of new_bucket: only the round number is compared
new_bucket_by_round(r, current_round, current_exchange) ==
    r.round_number # current_round

\* r.round_number != current_round || r.exchange_number != current_exchange
new_bucket(r, current_round, current_exchange) ==
    r.round_number # current_round \/ r.exchange_number # current_exchange

\* the loop of format_transcript from turn i on
RECURSIVE format_from(_, _, _, _, _)
format_from(turns, i, current_round, current_exchange, sections) ==
    IF i > Len(turns) THEN sections
    ELSE LET r == turns[i] IN
         IF new_bucket(r, current_round, current_exchange)
         THEN format_from(turns, i + 1, r.round_number, r.exchange_number,
                          sections \o <<Header(r.round_number, r.exchange_number),
                                        TurnLine(r)>>)
         ELSE format_from(turns, i + 1, current_round, current_exchange,
                          Append(sections, TurnLine(r)))

\* format_transcript(turns, all_agents): the sections of the rendered text
format_transcript(turns) == format_from(turns, 1, -1, -1, <<>>)

\* round1_prompt / round2_prompt / round3_prompt: the turns the round's user
\* prompt contains (the opening prompt carries the brief alone)
round_prompt(round_number, transcript) ==
    IF round_number = 1 THEN <<>> ELSE transcript

\* moderator_prompt(brief, transcript, participants)
moderator_prompt(transcript) == transcript

\* --------------------------------------------------- decisions.rs: summaries
\* serde_json::Value
JNull == [t |-> "null"]
JNum(n) == [t |-> "num", n |-> n]
JStr(x) == [t |-> "str", s |-> x]
JArr(a) == [t |-> "arr", a |-> a]
JObj(f) == [t |-> "obj", f |-> f]
EmptyObj == JObj(<<>>)

\* the stored summary text (Option<&str>): absent, a text that is not JSON,
\* or the serialisation of a Value
NoText == [t |-> "none"]
NotJson == [t |-> "text", valid |-> FALSE]
to_string(v) == [t |-> "text", valid |-> TRUE, v |-> v]

\* a panic of the thread evaluating the function
Panic == [t |-> "panic"]

\* Value::get(key): Some only on an object that has the key
Has(v, key) == v.t = "obj" /\ key \in DOMAIN v.f
\* v.get(key).and_then(|v| v.as_array())
HasArray(v, key) == Has(v, key) /\ v.f[key].t = "arr"
\* item.get(key).and_then(|v| v.as_str())
HasStr(v, key) == Has(v, key) /\ v.f[key].t = "str"

\* existing[key] = x (serde_json IndexMut<&str>): null becomes an object,
\* an object gets the key, any other Value panics
IndexSet(v, key, x) ==
    IF v.t = "null" THEN JObj([k \in {key} |-> x])
    ELSE IF v.t = "obj"
         THEN JObj([k \in DOMAIN v.f \cup {key} |-> IF k = key THEN x ELSE v.f[k]])
         ELSE Panic

\* faulty variant of parse_existing: an absent summary is read as null
parse_existing_null(existing_json) ==
    IF existing_json.t = "text" /\ existing_json.valid THEN existing_json.v
    ELSE IF existing_json.t = "none" THEN JNull ELSE EmptyObj

\* existing_json.and_then(|s| from_str(s).ok()).unwrap_or_else(|| json!({}))
parse_existing(existing_json) ==
    IF existing_json.t = "text" /\ existing_json.valid THEN existing_json.v
    ELSE EmptyObj

\* result.iter().position(..): the first item carrying the key string nk
Position(result, key, nk) ==
    LET hits == {j \in DOMAIN result : HasStr(result[j], key) /\ result[j].f[key].s = nk}
    IN IF hits = {} THEN 0 ELSE CHOOSE j \in hits : \A h \in hits : j <= h

\* faulty variant of merge_item: the item is always appended
merge_item_append(result, new_item, key) == Append(result, new_item)

\* faulty variant of merge_item: a replaced entry moves to the end
merge_item_move(result, new_item, key) ==
    IF HasStr(new_item, key)
    THEN LET pos == Position(result, key, new_item.f[key].s) IN
         IF pos # 0
         THEN Append(SubSeq(result, 1, pos - 1) \o SubSeq(result, pos + 1, Len(result)),
                     new_item)
         ELSE Append(result, new_item)
    ELSE Append(result, new_item)

\* the body of merge_array_by_key's loop
merge_item(result, new_item, key) ==
    IF HasStr(new_item, key)
    THEN LET pos == Position(result, key, new_item.f[key].s) IN
         IF pos # 0 THEN [result EXCEPT ![pos] = new_item]
         ELSE Append(result, new_item)
    ELSE Append(result, new_item)

RECURSIVE merge_from(_, _, _, _)
merge_from(result, new_items, key, i) ==
    IF i > Len(new_items) THEN result
    ELSE merge_from(merge_item(result, new_items[i], key), new_items, key, i + 1)

merge_array_by_key(existing, new_items, key) == merge_from(existing, new_items, key, 1)

\* one of the three array blocks of merge_summary
merge_section(existing, update, array_key, key) ==
    IF existing = Panic \/ ~HasArray(update, array_key) THEN existing
    ELSE LET old == IF HasArray(existing, array_key) THEN existing.f[array_key].a ELSE <<>>
         IN IndexSet(existing, array_key,
                     JArr(merge_array_by_key(old, update.f[array_key].a, key)))

\* faulty variant of set_recommendation: the fields of the prior
\* recommendation the update does not carry are kept
set_recommendation_keep(existing, update) ==
    IF existing = Panic \/ ~Has(update, "recommendation") THEN existing
    ELSE IF Has(existing, "recommendation") /\ existing.f.recommendation.t = "obj"
            /\ update.f.recommendation.t = "obj"
         THEN LET old == existing.f.recommendation.f
                  new == update.f.recommendation.f
              IN IndexSet(existing, "recommendation",
                          JObj([k \in DOMAIN old \cup DOMAIN new |->
                                   IF k \in DOMAIN new THEN new[k] ELSE old[k]]))
         ELSE IndexSet(existing, "recommendation", update.f.recommendation)

\* the recommendation block of merge_summary
set_recommendation(existing, update) ==
    IF existing = Panic \/ ~Has(update, "recommendation") THEN existing
    ELSE IndexSet(existing, "recommendation", update.f.recommendation)

merge_summary(existing_json, update) ==
    LET e0 == parse_existing(existing_json)
        e1 == merge_section(e0, update, "options", "label")
        e2 == merge_section(e1, update, "variables", "label")
        e3 == merge_section(e2, update, "pros_cons", "option")
        e4 == set_recommendation(e3, update)
    IN IF e4 = Panic THEN Panic ELSE to_string(e4)

\* the three array sections of a summary and the field their entries are
\* matched by
Sections == {[array_key |-> "options", key |-> "label"],
             [array_key |-> "variables", key |-> "label"],
             [array_key |-> "pros_cons", key |-> "option"]}

EntryKeys == {"Stay", "Leave"}

\* an entry of a section: its key field and a body telling who wrote it
\* (0 = the stored summary, n = the n-th update)
Item(key, k, n) == JObj([x \in {key, "body"} |-> IF x = key THEN JStr(k) ELSE JNum(n)])
\* an entry that lacks the key field
Unkeyed(n) == JObj([x \in {"body"} |-> JNum(n)])

ArraysOf(key, n) ==
    UNION {[1..l -> {Item(key, k, n) : k \in EntryKeys} \cup {Unkeyed(n)}] :
           l \in 0..MaxItems}

Rec(n) == JObj([choice |-> JNum(n)])

\* updates that carry one section (an array, or a value that is no array)
SectionUpdates(n) ==
    UNION {{JObj([x \in {sec.array_key} |-> v]) :
              v \in {JArr(a) : a \in ArraysOf(sec.key, n)} \cup {JStr("n/a")}} :
           sec \in Sections}

\* the update objects the summary tool passes to merge_summary
Updates(n) ==
    {EmptyObj, JObj([recommendation |-> Rec(n)]), JObj([recommendation |-> JNull]),
     JObj([options |-> JArr(<<Item("label", "Stay", n)>>),
           variables |-> JArr(<<Item("label", "Stay", n)>>),
           pros_cons |-> JArr(<<Item("option", "Stay", n)>>),
           recommendation |-> Rec(n)])}
    \cup SectionUpdates(n)

\* update_summary_from_debate: the debate_summary object built from the
\* moderator's text and the update that carries it
DebateSummary(n) ==
    JObj([consensus_points |-> JArr(<<JNum(n)>>), key_disagreements |-> JArr(<<JNum(n)>>),
          biases_identified |-> JArr(<<JNum(n)>>), final_votes |-> JObj(<<>>)])

debate_update(n, recommendation_found) ==
    IF recommendation_found
    THEN JObj([debate_summary |-> DebateSummary(n), recommendation |-> Rec(n)])
    ELSE JObj([debate_summary |-> DebateSummary(n)])

\* a summary that is ready for a debate
StoredSummary ==
    to_string(JObj([options |-> JArr(<<Item("label", "Stay", 0), Item("label", "Leave", 0)>>),
                    variables |-> JArr(<<Item("label", "Stay", 0)>>),
                    pros_cons |-> JArr(<<Item("option", "Leave", 0)>>),
                    recommendation |-> JObj([choice |-> JNum(0), reasoning |-> JNum(0)])]))

\* ---------------------------------------------------------------- initially
Absent == [t |-> "absent"]
Reply(cmd, d, result) == [cmd |-> cmd, decision_id |-> d, result |-> result]
NoReply == Reply("none", "", "ok")

\* builtin_agents: the five debaters and the moderator
BuiltinColors == <<"blue", "purple", "red", "teal", "orange">>

AgentInfo(key, label, color, role, builtin, sort_order) ==
    [key |-> key, label |-> label, color |-> color, role |-> role,
     builtin |-> builtin, sort_order |-> sort_order]

builtin_agents ==
    [i \in 1..5 |-> AgentInfo(AgentKeys[i], AgentLabels[i], BuiltinColors[i],
                               "debater", TRUE, i - 1)]
    \o <<AgentInfo(Moderator, "Moderator", "amber", "moderator", TRUE, 100)>>

\* the prompt files init_agent_files writes for the built-ins
BuiltinFiles == {a.key \o ".md" : a \in {builtin_agents[i] : i \in DOMAIN builtin_agents}}

Conversations == {"cA", "cB"}

\* the tables and the AppState before any command
DebateTables ==
    /\ status = [d \in Decisions |-> "exploring"]
    /\ summary = [d \in Decisions |-> NoRun]
    /\ brief = [d \in Decisions |-> NoRun]
    /\ completed_at = [d \in Decisions |-> FALSE]
    /\ rounds = {}
    /\ debate_cancel_flags = [d \in Decisions |-> NoRun]
    /\ cancel_flag = [r \in Runs |-> FALSE]
    /\ run = [r \in Runs |-> IdleRun]
    /\ inflight = {}
    /\ events = [r \in Runs |-> <<>>]
    /\ reply = NoReply
    /\ debate_audio = [d \in Decisions |-> FALSE]
    /\ agents_dir = [registry |-> builtin_agents, files |-> BuiltinFiles, edited |-> {}]
    /\ conversations = Conversations
    /\ messages = {}
    /\ conversation_id = [d \in Decisions |-> IF d = "dA" THEN "cA" ELSE "cB"]

\* no key for the speech provider is configured: no audio is generated
TablesInit == DebateTables /\ has_tts = FALSE

\* the application before any debate, every decision ready for one
AppInit == TablesInit /\ summary_json = [d \in Decisions |-> StoredSummary]

NoEval == [fn |-> "none"]

Init == AppInit /\ pure = NoEval

\* ----------------------------------------------------------------- commands
NoSummaryMsg == "Decision has no summary data. Chat with the AI first to build context."
NeedsEntriesMsg ==
    "Decision needs at least one option and one variable before starting a debate."

\* summary.get(key).and_then(as_array).map(|a| !a.is_empty()).unwrap_or(false)
has_entries(v, key) == HasArray(v, key) /\ v.f[key].a # <<>>

\* faulty variant of start_check: the variables are not looked at
start_check_options_only(row) ==
    IF row = Absent THEN "Decision not found"
    ELSE IF row = NoText THEN NoSummaryMsg
    ELSE IF ~row.valid THEN "Invalid summary JSON"
    ELSE IF ~has_entries(row.v, "options")
         THEN NeedsEntriesMsg
    ELSE "ok"

\* the first block of start_debate: the error it returns, or "ok"
start_check(row) ==
    IF row = Absent THEN "Decision not found"
    ELSE IF row = NoText THEN NoSummaryMsg
    ELSE IF ~row.valid THEN "Invalid summary JSON"
    ELSE IF ~has_entries(row.v, "options") \/ ~has_entries(row.v, "variables")
         THEN NeedsEntriesMsg
    ELSE "ok"

\* start_debate: check the decision; then register a fresh token for it and
\* spawn the run
start_debate(d, quick_mode) ==
    LET checked == start_check(summary_json[d]) IN
    /\ reply' = Reply("start_debate", d, checked)
    /\ IF checked # "ok"
       THEN UNCHANGED <<cancel_flag, debate_cancel_flags, run>>
       ELSE \E r \in Runs :
               /\ run[r].pc = "idle"
               /\ \A q \in Runs : q < r => run[q].pc # "idle"
               /\ cancel_flag' = [cancel_flag EXCEPT ![r] = FALSE]
               /\ debate_cancel_flags' = [debate_cancel_flags EXCEPT ![d] = r]
               /\ run' = [run EXCEPT ![r] =
                            [IdleRun EXCEPT !.pc = "start", !.decision_id = d,
                                            !.quick_mode = quick_mode]]
    /\ UNCHANGED <<aside, has_tts, debate_audio, pure, summary_json>>
    /\ UNCHANGED <<status, summary, brief, completed_at, rounds, inflight, events>>

\* faulty variant of cancel_debate: every registered token is set
cancel_debate_all(d) ==
    LET f == debate_cancel_flags[d]
        registered == {debate_cancel_flags[x] : x \in Decisions} \ {NoRun} IN
    /\ cancel_flag' = [r \in Runs |-> IF r \in registered THEN TRUE ELSE cancel_flag[r]]
    /\ status' = IF summary_json[d] = Absent THEN status
                  ELSE [status EXCEPT ![d] = "analyzing"]
    /\ debate_cancel_flags' = [debate_cancel_flags EXCEPT ![d] = NoRun]
    /\ run' = IF f # NoRun /\ ~cancel_flag[f]
              THEN [run EXCEPT ![f].cancelled_at = <<run[f].pc, run[f].ci>>]
              ELSE run
    /\ reply' = Reply("cancel_debate", d, "ok")
    /\ UNCHANGED <<aside, has_tts, debate_audio, pure, summary_json>>
    /\ UNCHANGED <<summary, brief, completed_at, rounds, inflight, events>>

\* cancel_debate: set the registered token, reset the status, drop the entry
cancel_debate(d) ==
    LET f == debate_cancel_flags[d] IN
    /\ cancel_flag' = IF f # NoRun THEN [cancel_flag EXCEPT ![f] = TRUE] ELSE cancel_flag
    /\ status' = IF summary_json[d] = Absent THEN status
                  ELSE [status EXCEPT ![d] = "analyzing"]
    /\ debate_cancel_flags' = [debate_cancel_flags EXCEPT ![d] = NoRun]
    /\ run' = IF f # NoRun /\ ~cancel_flag[f]
              THEN [run EXCEPT ![f].cancelled_at = <<run[f].pc, run[f].ci>>]
              ELSE run
    /\ reply' = Reply("cancel_debate", d, "ok")
    /\ UNCHANGED <<aside, has_tts, debate_audio, pure, summary_json>>
    /\ UNCHANGED <<summary, brief, completed_at, rounds, inflight, events>>

\* ------------------------------------------------------------------ the run
\* the content of a prompt file: what it was created with, or what
\* update_agent_file put in its place
GenericPrompt == "You are a committee member."
PromptOf(agent_key) == "prompt of " \o agent_key
EditedPrompt(filename) == "edited " \o filename

\* default_prompt_for_key: the built-ins have a hardcoded prompt
default_prompt_for_key(agent_key) ==
    IF agent_key \in Range(AgentKeys) \cup {Moderator} THEN Some(PromptOf(agent_key))
    ELSE None

\* faulty variant of read_agent_prompt: the file on disk is never consulted
read_agent_prompt_default(dir, agent_key) ==
    LET fallback == default_prompt_for_key(agent_key) IN
    IF fallback.some THEN fallback.v ELSE GenericPrompt

\* read_agent_prompt: the file {key}.md, else the hardcoded default, else the
\* generic prompt
read_agent_prompt(dir, agent_key) ==
    LET filename == agent_key \o ".md"
        fallback == default_prompt_for_key(agent_key) IN
    IF filename \in dir.files
    THEN IF filename \in dir.edited THEN EditedPrompt(filename) ELSE PromptOf(agent_key)
    ELSE IF fallback.some THEN fallback.v ELSE GenericPrompt

\* the system prompt a call is started with, on record
Prompted(rec, coord, agent_key) ==
    [rec EXCEPT !.system_prompts =
        Append(@, [coord |-> coord, agent |-> agent_key,
                   system_prompt |-> read_agent_prompt(agents_dir, agent_key)])]

\* a run_debate that returns Err(e): the spawned wrapper emits debate-error
EndErr(r, e, inv) ==
    /\ run' = [run EXCEPT ![r].pc = "done", ![r].result = "err", ![r].invoked = inv]
    /\ Emit(r, Event("debate-error", NoCoord, "", e))

NoDebatersMsg == "No debaters selected for the debate"

KeysOf(agents) == [i \in DOMAIN agents |-> agents[i].key]

\* run_debate after debate-started: load the registry and fix the roster; an
\* empty roster ends the run with an error
CaptureRoster(r) ==
    LET roster == debaters(agents_dir.registry, run[r].selected_agent_keys)
        started == Event("debate-started", NoCoord, "", "")
    IN  IF roster = <<>>
        THEN /\ run' = [run EXCEPT ![r].pc = "done", ![r].result = "err"]
             /\ Emit2(r, started, Event("debate-error", NoCoord, "", NoDebatersMsg))
        ELSE /\ run' = [run EXCEPT ![r].pc = "round_start", ![r].ci = 1,
                                   ![r].debaters = KeysOf(roster)]
             /\ Emit(r, started)

\* faulty variant of BeginRun: the turns of the prior run are left in place
BeginRunKeepsTurns(r) ==
    LET d == run[r].decision_id IN
    /\ run[r].pc = "start"
    /\ UNCHANGED rounds
    /\ brief' = [brief EXCEPT ![d] = r]
    /\ status' = [status EXCEPT ![d] = "debating"]
    /\ completed_at' = [completed_at EXCEPT ![d] = FALSE]
    /\ CaptureRoster(r)
    /\ UNCHANGED <<aside, has_tts, debate_audio, pure, summary_json, reply>>
    /\ UNCHANGED <<summary, debate_cancel_flags, cancel_flag, inflight>>

\* run_debate steps 1-3: compile and save the brief, clear the prior turns,
\* mark the decision debating, emit debate-started, then capture the roster
BeginRun(r) ==
    LET d == run[r].decision_id IN
    /\ run[r].pc = "start"
    /\ rounds' = {x \in rounds : x.decision_id # d}
    /\ brief' = [brief EXCEPT ![d] = r]
    /\ status' = [status EXCEPT ![d] = "debating"]
    /\ completed_at' = [completed_at EXCEPT ![d] = FALSE]
    /\ CaptureRoster(r)
    /\ UNCHANGED <<aside, has_tts, debate_audio, pure, summary_json, reply>>
    /\ UNCHANGED <<summary, debate_cancel_flags, cancel_flag, inflight>>

\* run_sequential_round entry: poll the token, render the transcript of the
\* turns of the earlier rounds, build the round's prompt once
RoundStart(r) ==
    LET inv == Append(run[r].invoked, Coord(r)) IN
    /\ run[r].pc = "round_start"
    /\ IF LoadFlag(r)
       THEN EndErr(r, CancelledMsg, inv)
       ELSE /\ run' = [run EXCEPT ![r].pc = "agent_check", ![r].k = 1,
                                  ![r].new_rounds = <<>>,
                                  ![r].user_prompt =
                                      round_prompt(Coord(r)[1],
                                                   format_transcript(run[r].all_rounds)),
                                  ![r].invoked = inv]
            /\ UNCHANGED events
    /\ UNCHANGED <<aside, has_tts, debate_audio, pure, summary_json, reply>>
    /\ UNCHANGED <<status, summary, brief, completed_at, rounds, debate_cancel_flags,
                   cancel_flag, inflight>>

\* faulty variant of StartCalls: the remaining debaters are called at once
StartCallsAll(r) ==
    {Call(r, Coord(r), run[r].debaters[j]) : j \in run[r].k..Len(run[r].debaters)}

\* the requests the loop body puts in flight: the current debater's, awaited
\* before the loop goes on
StartCalls(r) == {Call(r, Coord(r), Agent(r))}

\* top of the loop over the debaters: poll the token, then start the call
AgentCheck(r) ==
    /\ run[r].pc = "agent_check"
    /\ IF LoadFlag(r)
       THEN /\ EndErr(r, CancelledMsg, run[r].invoked)
            /\ UNCHANGED inflight
       ELSE /\ run' = [run EXCEPT ![r] = Prompted(
                         [run[r] EXCEPT !.pc = "calling",
                            !.calls_after_cancel = @ + (IF cancel_flag[r] THEN 1 ELSE 0)],
                         Coord(r), Agent(r))]
            /\ inflight' = inflight \cup StartCalls(r)
            /\ UNCHANGED events
    /\ UNCHANGED <<aside, has_tts, debate_audio, pure, summary_json, reply>>
    /\ UNCHANGED <<status, summary, brief, completed_at, rounds, debate_cancel_flags,
                   cancel_flag>>

\* the run record after debater k of the round is finished with
Advance(r, rec) ==
    IF rec.k < Len(rec.debaters)
    THEN [rec EXCEPT !.pc = "agent_check", !.k = @ + 1]
    ELSE [rec EXCEPT !.pc = "boundary", !.all_rounds = @ \o rec.new_rounds]

\* faulty variant of AfterFailure: the failure ends the round
AfterFailureAbort(r, rec) ==
    [rec EXCEPT !.pc = "boundary", !.all_rounds = @ \o rec.new_rounds]

\* the Err arm of the loop body falls through to the next debater
AfterFailure(r, rec) == Advance(r, rec)

\* faulty variant of RoundComplete: every round reports the opening's coordinate
RoundCompleteOfOpening(r) == Event("debate-round-complete", <<1, 1>>, "", "")

\* the event emitted when the loop over the debaters has run through
RoundComplete(r) == Event("debate-round-complete", Coord(r), "", "")

\* spawn_segment_tts: nothing without a key; otherwise a task is spawned for
\* the turn and its handle pushed, and the caller goes on at once
spawn_segment_tts(rec) ==
    IF has_tts THEN [rec EXCEPT !.handles = Append(@, "running")] ELSE rec

\* the debater's wrapped call returned.  Ok: persist the turn, emit it, go on
\* with the next debater.  Err after the retries: emit the placeholder, go on
CallReturns(r, outcomes) ==
    LET res == call_agent_with_retry(LabelOf(Agent(r)), outcomes, MAX_RETRIES)
        row == Row(run[r].decision_id, r, Coord(r), Agent(r))
        rec == spawn_segment_tts(
                   [run[r] EXCEPT !.new_rounds = Append(@, row),
                      !.after_cancel = @ + (IF cancel_flag[r] THEN 1 ELSE 0)])
        done == Event("debate-agent-response", Coord(r), Agent(r), "")
        placeholder == Event("debate-agent-response", Coord(r), ErrorAgent, Agent(r))
        failed == AfterFailure(r, run[r])
        last == run[r].k = Len(run[r].debaters) IN
    /\ run[r].pc = "calling"
    /\ inflight' = inflight \ {Call(r, Coord(r), Agent(r))}
    /\ IF res.ok
       THEN /\ rounds' = rounds \cup {row}
            /\ run' = [run EXCEPT ![r] = Advance(r, rec)]
            /\ IF last THEN Emit2(r, done, RoundComplete(r)) ELSE Emit(r, done)
       ELSE /\ FailCount < MaxFailures
            /\ UNCHANGED rounds
            /\ run' = [run EXCEPT ![r] = failed]
            /\ IF failed.pc = "boundary" /\ last
               THEN Emit2(r, placeholder, RoundComplete(r))
               ELSE Emit(r, placeholder)
    /\ UNCHANGED <<aside, has_tts, debate_audio, pure, summary_json, reply>>
    /\ UNCHANGED <<status, summary, brief, completed_at, debate_cancel_flags, cancel_flag>>

\* handle_cancellation: reset the status, emit the cancellation, return Ok
handle_cancellation(r) ==
    /\ status' = [status EXCEPT ![run[r].decision_id] = "analyzing"]
    /\ Emit(r, Event("debate-error", NoCoord, "", CancelledMsg))
    /\ run' = [run EXCEPT ![r].pc = "done", ![r].result = "ok"]

\* run_debate between two rounds and before the moderator: poll the token,
\* then enter the next round or start the moderator's call
Boundary(r) ==
    /\ run[r].pc = "boundary"
    /\ IF LoadFlag(r)
       THEN /\ handle_cancellation(r)
            /\ UNCHANGED inflight
       ELSE /\ IF run[r].ci < Len(RoundPlan(run[r].quick_mode))
               THEN /\ run' = [run EXCEPT ![r].pc = "round_start", ![r].ci = @ + 1]
                    /\ UNCHANGED inflight
               ELSE /\ run' = [run EXCEPT ![r] = Prompted(
                                 [run[r] EXCEPT !.pc = "mod_calling",
                                    !.user_prompt =
                                        moderator_prompt(format_transcript(run[r].all_rounds)),
                                    !.invoked = Append(@, ModeratorCoord),
                                    !.calls_after_cancel =
                                        @ + (IF cancel_flag[r] THEN 1 ELSE 0)],
                                 ModeratorCoord, Moderator)]
                    /\ inflight' = inflight \cup {Call(r, ModeratorCoord, Moderator)}
            /\ UNCHANGED <<status, events>>
    /\ UNCHANGED <<aside, has_tts, debate_audio, pure, summary_json, reply>>
    /\ UNCHANGED <<summary, brief, completed_at, rounds, debate_cancel_flags, cancel_flag>>

\* the moderator's wrapped call returned.  Ok: persist its turn at (99, 1)
\* and emit it.  Err after the retries: run_debate returns the error
ModReturns(r, outcomes) ==
    LET res == call_agent_with_retry(LabelOf(Moderator), outcomes, MAX_RETRIES)
        row == Row(run[r].decision_id, r, ModeratorCoord, Moderator) IN
    /\ run[r].pc = "mod_calling"
    /\ inflight' = inflight \ {Call(r, ModeratorCoord, Moderator)}
    /\ IF res.ok
       THEN /\ rounds' = rounds \cup {row}
            /\ run' = [run EXCEPT ![r] = spawn_segment_tts(
                         [run[r] EXCEPT !.pc = "summary",
                            !.after_cancel = @ + (IF cancel_flag[r] THEN 1 ELSE 0)])]
            /\ Emit(r, Event("debate-agent-response", ModeratorCoord, Moderator, ""))
       ELSE /\ FailCount < MaxFailures
            /\ UNCHANGED rounds
            /\ EndErr(r, ModeratorFailedMsg, run[r].invoked)
    /\ UNCHANGED <<aside, has_tts, debate_audio, pure, summary_json, reply>>
    /\ UNCHANGED <<status, summary, brief, completed_at, debate_cancel_flags, cancel_flag>>

\* update_summary_from_debate: merge the debate summary and persist it
UpdateSummary(r, recommendation_found) ==
    LET d == run[r].decision_id IN
    /\ run[r].pc = "summary"
    /\ summary' = [summary EXCEPT ![d] = r]
    /\ summary_json' = [summary_json EXCEPT ![d] =
                           merge_summary(@, debate_update(r, recommendation_found))]
    /\ Emit(r, Event("decision-summary-updated", NoCoord, "", ""))
    /\ run' = [run EXCEPT ![r].pc = "complete"]
    /\ UNCHANGED <<aside, has_tts, debate_audio, pure, reply>>
    /\ UNCHANGED <<status, brief, completed_at, rounds, debate_cancel_flags, cancel_flag,
                   inflight>>

\* faulty variant of MarkComplete: the run is marked complete as soon as the
\* moderator's turn is saved, before the summary is merged
MarkCompleteBeforeSummary(r) ==
    LET d == run[r].decision_id IN
    /\ run[r].pc = "summary"
    /\ completed_at' = [completed_at EXCEPT ![d] = TRUE]
    /\ status' = [status EXCEPT ![d] = "recommended"]
    /\ Emit(r, Event("debate-complete", NoCoord, "", ""))
    /\ run' = [run EXCEPT ![r].pc = "done", ![r].result = "ok"]
    /\ UNCHANGED <<aside, has_tts, debate_audio, pure, summary_json, reply>>
    /\ UNCHANGED <<summary, brief, rounds, debate_cancel_flags, cancel_flag, inflight>>

\* run_debate step 10: completion timestamp, status recommended, debate-complete
MarkComplete(r) ==
    LET d == run[r].decision_id IN
    /\ run[r].pc = "complete"
    /\ completed_at' = [completed_at EXCEPT ![d] = TRUE]
    /\ status' = [status EXCEPT ![d] = "recommended"]
    /\ Emit(r, Event("debate-complete", NoCoord, "", ""))
    /\ run' = IF has_tts THEN [run EXCEPT ![r].pc = "await_audio"]
              ELSE [run EXCEPT ![r].pc = "done", ![r].result = "ok"]
    /\ UNCHANGED <<aside, has_tts, debate_audio, pure, summary_json, reply>>
    /\ UNCHANGED <<summary, brief, rounds, debate_cancel_flags, cancel_flag, inflight>>

\* what a spawned audio task may come to: a segment, an error, or the task
\* dies (its JoinHandle yields a JoinError)
AudioResults == {"ready", "error", "died"}

\* the audio task of the i-th saved turn ends; it reports a segment or an
\* error by its own event
segment_audio(r, i, result) ==
    /\ i \in DOMAIN run[r].handles
    /\ run[r].handles[i] = "running"
    /\ run' = [run EXCEPT ![r].handles[i] = result]
    /\ IF result = "ready"
       THEN Emit(r, Event("debate-segment-audio-ready", NoCoord, "", ""))
       ELSE IF result = "error"
       THEN Emit(r, Event("debate-segment-audio-error", NoCoord, "", ""))
       ELSE UNCHANGED events
    /\ UNCHANGED <<aside, has_tts, debate_audio, pure, summary_json, reply>>
    /\ UNCHANGED <<status, summary, brief, completed_at, rounds, debate_cancel_flags,
                   cancel_flag, inflight>>

\* faulty variant of AwaitAudio: a task that yields no segment fails the run
AwaitAudioPropagates(r) ==
    LET completed_segments == {i \in DOMAIN run[r].handles : run[r].handles[i] = "ready"} IN
    /\ run[r].pc = "await_audio"
    /\ \A i \in DOMAIN run[r].handles : run[r].handles[i] # "running"
    /\ IF completed_segments # DOMAIN run[r].handles
       THEN /\ status' = [status EXCEPT ![run[r].decision_id] = "analyzing"]
            /\ EndErr(r, "Audio generation failed", run[r].invoked)
            /\ UNCHANGED debate_audio
       ELSE /\ debate_audio' = [debate_audio EXCEPT ![run[r].decision_id] = TRUE]
            /\ Emit(r, Event("audio-generation-complete", NoCoord, "", ""))
            /\ run' = [run EXCEPT ![r].pc = "done", ![r].result = "ok"]
            /\ UNCHANGED status
    /\ UNCHANGED <<aside, has_tts, pure, summary_json, reply>>
    /\ UNCHANGED <<summary, brief, completed_at, rounds, debate_cancel_flags,
                   cancel_flag, inflight>>

\* run_debate after debate-complete: await every handle in turn, keep the
\* segments of those that yielded one, store and emit the manifest if there
\* is any, return Ok
AwaitAudio(r) ==
    LET completed_segments == {i \in DOMAIN run[r].handles : run[r].handles[i] = "ready"} IN
    /\ run[r].pc = "await_audio"
    /\ \A i \in DOMAIN run[r].handles : run[r].handles[i] # "running"
    /\ IF completed_segments # {}
       THEN /\ debate_audio' = [debate_audio EXCEPT ![run[r].decision_id] = TRUE]
            /\ Emit(r, Event("audio-generation-complete", NoCoord, "", ""))
       ELSE UNCHANGED <<debate_audio, events>>
    /\ run' = [run EXCEPT ![r].pc = "done", ![r].result = "ok"]
    /\ UNCHANGED <<aside, has_tts, pure, summary_json, reply>>
    /\ UNCHANGED <<status, summary, brief, completed_at, rounds, debate_cancel_flags,
                   cancel_flag, inflight>>

\* the steps of the spawned runs
RunStep ==
    \/ \E r \in Runs : BeginRun(r)
    \/ \E r \in Runs : RoundStart(r)
    \/ \E r \in Runs : AgentCheck(r)
    \/ \E r \in Runs, o \in Outcomes(MAX_RETRIES) : CallReturns(r, o)
    \/ \E r \in Runs : Boundary(r)
    \/ \E r \in Runs, o \in Outcomes(MAX_RETRIES) : ModReturns(r, o)
    \/ \E r \in Runs, found \in BOOLEAN : UpdateSummary(r, found)
    \/ \E r \in Runs : MarkComplete(r)

Started == {r \in Runs : run[r].pc # "idle"}

\* one run from start to end, with cancel_debate arriving at any moment
Next ==
    \/ \E d \in Decisions, q \in BOOLEAN : Started = {} /\ start_debate(d, q)
    \/ \E d \in Decisions : cancel_debate(d)
    \/ RunStep

Spec == Init /\ [][Next]_vars

\* the spawned task is scheduled and every call in flight returns: a step
\* of a run that can be taken is taken in the end
SpecLive == Init /\ [][Next]_vars /\ WF_vars(RunStep)

\* outcomes of a wrapped call that returns Ok
OkOutcomes ==
    {o \in Outcomes(MAX_RETRIES) : call_agent_with_retry("", o, MAX_RETRIES).ok}

\* start_debate invoked again at any moment, for the same or another
\* decision: quick-mode runs against a healthy completion service
NextConcurrent ==
    \/ \E d \in Decisions : start_debate(d, TRUE)
    \/ \E d \in Decisions : cancel_debate(d)
    \/ \E r \in Runs : BeginRun(r)
    \/ \E r \in Runs : RoundStart(r)
    \/ \E r \in Runs : AgentCheck(r)
    \/ \E r \in Runs, o \in OkOutcomes : CallReturns(r, o)
    \/ \E r \in Runs : Boundary(r)
    \/ \E r \in Runs, o \in OkOutcomes : ModReturns(r, o)
    \/ \E r \in Runs, found \in BOOLEAN : UpdateSummary(r, found)
    \/ \E r \in Runs : MarkComplete(r)

SpecConcurrent == Init /\ [][NextConcurrent]_vars

\* ------------------------------------------------ decisions of any condition
\* what the decisions table may hold for an id when start_debate is called
DecisionRows ==
    {Absent, NoText, NotJson, to_string(EmptyObj),
     to_string(JObj([options |-> JArr(<<Item("label", "Stay", 0)>>)])),
     to_string(JObj([variables |-> JArr(<<Item("label", "Stay", 0)>>)])),
     to_string(JObj([options |-> JArr(<<>>),
                     variables |-> JArr(<<Item("label", "Stay", 0)>>)])),
     to_string(JObj([options |-> JStr("n/a"),
                     variables |-> JArr(<<Item("label", "Stay", 0)>>)])),
     StoredSummary}

InitStart ==
    /\ TablesInit
    /\ summary_json \in [Decisions -> DecisionRows]
    /\ pure = NoEval

\* one run at a time, started for decisions of any condition
SpecStart == InitStart /\ [][Next]_vars

\* ------------------------------------------------- the other status writers
\* the status strings a caller or the model's tool input may carry: the six
\* of the life cycle and one that is none of them
StatusArgs ==
    {"exploring", "analyzing", "debating", "recommended", "decided", "reviewed", "archived"}

\* the command update_decision_status: "decided" and "reviewed" go through
\* update_decision_choice / update_decision_outcome and need their field;
\* any other string is written as it is
update_decision_status(d, new_status, user_choice, outcome) ==
    LET missing == IF new_status = "decided" /\ ~user_choice
                   THEN "user_choice is required when status is 'decided'"
                   ELSE IF new_status = "reviewed" /\ ~outcome
                   THEN "outcome is required when status is 'reviewed'"
                   ELSE "ok" IN
    /\ status' = IF missing = "ok" /\ summary_json[d] # Absent
                  THEN [status EXCEPT ![d] = new_status] ELSE status
    /\ reply' = Reply("update_decision_status", d,
                      IF missing # "ok" THEN missing
                      ELSE IF summary_json[d] = Absent
                           THEN "Decision not found after update" ELSE "ok")
    /\ UNCHANGED <<summary, brief, completed_at, rounds, debate_cancel_flags,
                   cancel_flag, run, inflight, events, pure, summary_json,
                   has_tts, debate_audio, aside>>

\* the inputs of the summary tool: a status alone, or a recommendation
ToolInputs ==
    {JObj([status |-> JStr(x)]) : x \in {"exploring", "analyzing", "recommended", "archived"}}
    \cup {JObj([recommendation |-> Rec(0)])}

\* execute_tool, "update_decision_summary": merge the input into the stored
\* summary, save it, write the input's status when it has one
execute_tool(d, input) ==
    LET merged == merge_summary(summary_json[d], input) IN
    /\ merged # Panic
    /\ summary_json[d] # Absent
    /\ summary_json' = [summary_json EXCEPT ![d] = merged]
    /\ status' = IF HasStr(input, "status")
                  THEN [status EXCEPT ![d] = input.f.status.s] ELSE status
    /\ UNCHANGED <<summary, brief, completed_at, rounds, debate_cancel_flags,
                   cancel_flag, run, inflight, events, pure, reply,
                   has_tts, debate_audio, aside>>

\* a quick run against a healthy completion service, cancel_debate, the
\* status command and the summary tool, in any order
NextStatus ==
    \/ \E d \in Decisions : Started = {} /\ start_debate(d, TRUE)
    \/ \E d \in Decisions : cancel_debate(d)
    \/ \E r \in Runs : BeginRun(r)
    \/ \E r \in Runs : RoundStart(r)
    \/ \E r \in Runs : AgentCheck(r)
    \/ \E r \in Runs, o \in OkOutcomes : CallReturns(r, o)
    \/ \E r \in Runs : Boundary(r)
    \/ \E r \in Runs, o \in OkOutcomes : ModReturns(r, o)
    \/ \E r \in Runs, found \in BOOLEAN : UpdateSummary(r, found)
    \/ \E r \in Runs : MarkComplete(r)
    \/ \E d \in Decisions, x \in StatusArgs, given \in BOOLEAN :
          update_decision_status(d, x, given, given)
    \/ \E d \in Decisions, input \in ToolInputs : execute_tool(d, input)

SpecStatus == Init /\ [][NextStatus]_vars

\* ------------------------------------------------------------ with live audio
\* a key for the speech provider is configured
InitAudio ==
    /\ DebateTables
    /\ summary_json = [d \in Decisions |-> StoredSummary]
    /\ pure = NoEval
    /\ has_tts = TRUE

\* one quick run against a healthy completion service, its audio tasks
\* ending in any way at any moment, cancel_debate arriving at any moment
NextAudio ==
    \/ \E d \in Decisions : Started = {} /\ start_debate(d, TRUE)
    \/ \E d \in Decisions : cancel_debate(d)
    \/ \E r \in Runs : BeginRun(r)
    \/ \E r \in Runs : RoundStart(r)
    \/ \E r \in Runs : AgentCheck(r)
    \/ \E r \in Runs, o \in OkOutcomes : CallReturns(r, o)
    \/ \E r \in Runs : Boundary(r)
    \/ \E r \in Runs, o \in OkOutcomes : ModReturns(r, o)
    \/ \E r \in Runs : UpdateSummary(r, TRUE)
    \/ \E r \in Runs : MarkComplete(r)
    \/ \E r \in Runs, i \in 1..(NumDebaters + 1), result \in AudioResults :
          segment_audio(r, i, result)
    \/ \E r \in Runs : AwaitAudio(r)

SpecAudio == InitAudio /\ [][NextAudio]_vars

\* ------------------------------------------- functions evaluated on their own
app == <<status, summary, brief, completed_at, rounds, debate_cancel_flags,
         cancel_flag, run, inflight, events, summary_json, reply,
         has_tts, debate_audio, aside>>

NoResult == [ok |-> FALSE, attempts |-> 0, text |-> 0, failure |-> NoFailure]

\* call_agent_with_retry for any persona, any max_retries and any results
\* of the attempts
InitRetry ==
    /\ AppInit
    /\ \E i \in 1..NumDebaters, m \in 0..MaxRetriesArg :
         \E o \in Outcomes(m) :
            pure = [fn |-> "call_agent_with_retry", agent_label |-> AgentLabels[i],
                    max_retries |-> m, outcomes |-> o, done |-> FALSE,
                    result |-> NoResult]

EvalRetry ==
    /\ pure.fn = "call_agent_with_retry" /\ ~pure.done
    /\ pure' = [pure EXCEPT !.done = TRUE,
                            !.result = call_agent_with_retry(pure.agent_label,
                                           pure.outcomes, pure.max_retries)]
    /\ UNCHANGED app

NextRetry == EvalRetry

SpecRetry == InitRetry /\ [][NextRetry]_vars

\* the longest selection passed to run_debate
MaxSelected == 3

\* the keys a selection may name: debaters, the moderator, a custom persona,
\* a key of no agent
SelectableKeys == {"rationalist", "advocate", "visionary", Moderator, "economist", "nobody"}

SeqsUpTo(S, n) == UNION {[1..m -> S] : m \in 0..n}

\* the registries load_registry returns: the built-ins, with or without a
\* custom persona
Registries ==
    {builtin_agents,
     Append(builtin_agents, AgentInfo("economist", "Economist", "green", "debater", FALSE, 5))}

\* the roster of run_debate for any registry and any selection
InitRoster ==
    /\ AppInit
    /\ \E registry \in Registries :
       \E selected_agent_keys \in {None} \cup {Some(v) : v \in SeqsUpTo(SelectableKeys, MaxSelected)} :
          pure = [fn |-> "debaters", registry |-> registry,
                  selected_agent_keys |-> selected_agent_keys,
                  done |-> FALSE, result |-> <<>>]

EvalRoster ==
    /\ pure.fn = "debaters" /\ ~pure.done
    /\ pure' = [pure EXCEPT !.done = TRUE,
                            !.result = debaters(pure.registry, pure.selected_agent_keys)]
    /\ UNCHANGED app

NextRoster == EvalRoster

SpecRoster == InitRoster /\ [][NextRoster]_vars

\* the summary texts a decision's row may hold before a merge: none, texts
\* that are not JSON or not a summary object, and summaries
ExistingTexts ==
    {NoText, NotJson, to_string(EmptyObj), to_string(JNull), to_string(JArr(<<>>)),
     to_string(JNum(0)), to_string(JStr("n/a")),
     to_string(JObj([options |-> JStr("n/a")])),
     to_string(JObj([options |-> JArr(<<Item("label", "Stay", 0)>>)])),
     StoredSummary}

\* merge_summary applied to a stored text, and again to what it returned
InitMerge ==
    /\ AppInit
    /\ \E s \in ExistingTexts :
         pure = [fn |-> "merge_summary", s0 |-> s, us |-> <<>>, prev |-> s, cur |-> s]

\* the evaluation after merging u into the current text
Merged(u) ==
    [pure EXCEPT !.us = Append(@, u), !.prev = pure.cur,
                 !.cur = merge_summary(pure.cur, u)]

\* a further merge is evaluated: at most two in a row, none after a panic
CanMerge == pure.fn = "merge_summary" /\ Len(pure.us) <= 1 /\ pure.cur # Panic

\* execute_tool, update_decision_summary: merge the tool's input and save
update_decision_summary ==
    /\ CanMerge
    /\ \E u \in Updates(Len(pure.us) + 1) : pure' = Merged(u)
    /\ UNCHANGED app

\* update_summary_from_debate: merge the debate's update and save
update_summary_from_debate ==
    /\ CanMerge
    /\ \E found \in BOOLEAN : pure' = Merged(debate_update(Len(pure.us) + 1, found))
    /\ UNCHANGED app

NextMerge ==
    \/ update_decision_summary
    \/ update_summary_from_debate

SpecMerge == InitMerge /\ [][NextMerge]_vars

\* ------------------------------------------- debate.rs: the moderator's text
\* a text is the sequence of its lines; a line is a "## " heading, a bold
\* field "**label**" followed or not by ":" and by the rest of the line, or
\* any other line
Heading(name) == [kind |-> "heading", name |-> name]
Bold(label, colon, rest) == [kind |-> "bold", label |-> label, colon |-> colon, rest |-> rest]
Plain(rest) == [kind |-> "plain", rest |-> rest]

\* str::trim, str::to_lowercase and str::contains on the strings that occur
trim(x) == IF x = "  Option B  " THEN "Option B" ELSE x

to_lowercase(x) ==
    CASE x = "High" -> "high"
      [] x = "HIGH" -> "high"
      [] x = "Low" -> "low"
      [] x = "Medium" -> "medium"
      [] x = "Mixed" -> "mixed"
      [] x = "Follow-up needed" -> "follow-up needed"
      [] x = "Economist" -> "economist"
      [] x = "Historian" -> "historian"
      [] x = "Moderator" -> "moderator"
      [] x = "ADVOCATE" -> "advocate"
      [] x = "Risk" -> "risk"
      [] x = "Officer" -> "officer"
      [] OTHER -> x

contains(x, pat) ==
    CASE pat = "high" -> x = "high"
      [] pat = "low" -> x \in {"low", "Follow-up needed", "follow-up needed"}
      [] OTHER -> x = pat

IsBlank(l) == l.kind = "plain" /\ l.rest = ""

Least(S) == CHOOSE i \in S : \A j \in S : i <= j
Greatest(S) == CHOOSE i \in S : \A j \in S : j <= i

\* trim of a multi-line text: the blank lines at both ends go
trim_lines(text) ==
    LET kept == {i \in DOMAIN text : ~IsBlank(text[i])} IN
    IF kept = {} THEN <<>> ELSE SubSeq(text, Least(kept), Greatest(kept))

\* extract_section: what follows the first "## heading" up to the next
\* line that starts with "## ", trimmed; empty without the heading
extract_section(text, heading) ==
    LET found == {i \in DOMAIN text : text[i] = Heading(heading)} IN
    IF found = {} THEN <<>>
    ELSE LET start == Least(found)
             next == {j \in DOMAIN text : j > start /\ text[j].kind = "heading"}
             end == IF next = {} THEN Len(text) + 1 ELSE Least(next)
         IN trim_lines(SubSeq(text, start + 1, end - 1))

\* extract_bold_value: the rest of the line after the first "**label**:",
\* trimmed; None without the pattern or when the rest is empty
extract_bold_value(text, label) ==
    LET found == {i \in DOMAIN text :
                     text[i].kind = "bold" /\ text[i].label = label /\ text[i].colon} IN
    IF found = {} THEN None
    ELSE LET value == trim(text[Least(found)].rest) IN
         IF value = "" THEN None ELSE Some(value)

\* full_text.contains("**Choice**")
contains_choice(full_text) ==
    \E i \in DOMAIN full_text : full_text[i].kind = "bold" /\ full_text[i].label = "Choice"

\* faulty variant of no_recommendation: the section is not looked at
no_recommendation_without_choice(rec_section, full_text) == ~contains_choice(full_text)

\* the guard of parse_moderator_recommendation that returns None
no_recommendation(rec_section, full_text) ==
    rec_section = <<>> /\ ~contains_choice(full_text)

\* faulty variant of confidence_level: the value is not lower-cased
confidence_level_cased(confidence) ==
    IF contains(confidence, "high") THEN "high"
    ELSE IF contains(confidence, "low") THEN "low"
    ELSE "medium"

\* confidence ... .to_lowercase() and the conf chain
confidence_level(confidence) ==
    LET lower == to_lowercase(confidence) IN
    IF contains(lower, "high") THEN "high"
    ELSE IF contains(lower, "low") THEN "low"
    ELSE "medium"

Placeholder == "See moderator's synthesis"

\* parse_moderator_recommendation: None, or the choice and confidence
\* fields of the recommendation object
parse_moderator_recommendation(rec_section, full_text) ==
    IF no_recommendation(rec_section, full_text) THEN None
    ELSE LET text == IF rec_section = <<>> THEN full_text ELSE rec_section
             choice == extract_bold_value(text, "Choice")
             confidence == extract_bold_value(text, "Confidence")
         IN Some([choice |-> IF choice.some THEN choice.v ELSE Placeholder,
                  confidence |-> confidence_level(IF confidence.some THEN confidence.v
                                                  ELSE "medium")])

\* the lines a moderator text is made of
Lines ==
    {Heading("Recommendation"), Heading("Where the Committee Agreed"),
     Plain("- Point A"), Plain(""), Bold("Choice", FALSE, " Option B")}
    \cup {Bold("Choice", TRUE, x) : x \in {"Option B", "  Option B  ", ""}}
    \cup {Bold("Confidence", TRUE, x) :
              x \in {"High", "HIGH", "Low", "Medium", "Mixed", "Follow-up needed", ""}}

Texts == UNION {[1..l -> Lines] : l \in 0..MaxLines}

InitParse ==
    /\ AppInit
    /\ \E text \in Texts :
         pure = [fn |-> "parse_moderator_recommendation", moderator_response |-> text,
                 done |-> FALSE, recommendation |-> None]

\* update_summary_from_debate: the section is extracted and parsed
ParseRecommendation ==
    /\ pure.fn = "parse_moderator_recommendation" /\ ~pure.done
    /\ LET rec_section == extract_section(pure.moderator_response, "Recommendation") IN
       pure' = [pure EXCEPT !.done = TRUE,
                  !.recommendation =
                      parse_moderator_recommendation(rec_section, pure.moderator_response)]
    /\ UNCHANGED app

NextParse == ParseRecommendation

SpecParse == InitParse /\ [][NextParse]_vars

\* ---------------------------------------------- debate.rs: the transcript
\* the turns a transcript is rendered from: any coordinate of a run, by a
\* registered persona or by one that is no longer in the registry
TranscriptTurns ==
    {Row("dA", 1, c, a) :
        c \in {RoundPlan(FALSE)[i] : i \in DOMAIN RoundPlan(FALSE)} \cup {ModeratorCoord},
        a \in {AgentKeys[1], "retired"}}

InitTranscript ==
    /\ AppInit
    /\ \E l \in 0..MaxTurns :
         \E t \in [1..l -> TranscriptTurns] :
            pure = [fn |-> "format_transcript", turns |-> t, done |-> FALSE,
                    sections |-> <<>>]

FormatTranscript ==
    /\ pure.fn = "format_transcript" /\ ~pure.done
    /\ pure' = [pure EXCEPT !.done = TRUE, !.sections = format_transcript(pure.turns)]
    /\ UNCHANGED app

NextTranscript == FormatTranscript

SpecTranscript == InitTranscript /\ [][NextTranscript]_vars

\* --------------------------------------------------- agents.rs: the registry
\* a label is given piece by piece: words, and single characters that are
\* not alphanumeric
Separators == {" ", "-", "!", "_"}

LabelInputs ==
    {<<"Economist">>, <<" ", "economist", "!">>, <<"Historian">>,
     <<"Risk", " ", "Officer">>, <<"risk", "-", "officer">>,
     <<"Moderator">>, <<"ADVOCATE", "!">>, <<"!", "_">>}

RECURSIVE concat(_)
concat(pieces) ==
    IF pieces = <<>> THEN "" ELSE Head(pieces) \o concat(Tail(pieces))

\* the key of a label: lower case, every character that is not alphanumeric
\* replaced by '_', the '_' at both ends trimmed
derive_key(label) ==
    LET mapped == [i \in DOMAIN label |->
                      IF label[i] \in Separators THEN "_" ELSE to_lowercase(label[i])]
        kept == {i \in DOMAIN mapped : mapped[i] # "_"} IN
    IF kept = {} THEN "" ELSE concat(SubSeq(mapped, Least(kept), Greatest(kept)))

\* faulty variant of any_key: only the custom agents are looked at
any_custom_key(registry, key) ==
    \E i \in DOMAIN registry : ~registry[i].builtin /\ registry[i].key = key

\* registry.iter().any(|a| a.key == key)
any_key(registry, key) ==
    \E i \in DOMAIN registry : registry[i].key = key

available_colors ==
    <<"green", "pink", "cyan", "indigo", "blue", "purple", "red", "teal", "orange">>

\* the first colour no agent uses, else blue
pick_color(registry) ==
    LET used_colors == {registry[i].color : i \in DOMAIN registry}
        free == {i \in DOMAIN available_colors : available_colors[i] \notin used_colors} IN
    IF free = {} THEN "blue" ELSE available_colors[Least(free)]

\* the greatest sort_order among the debaters, 4 if there is none
max_debater_order(registry) ==
    LET orders == {registry[i].sort_order :
                      i \in {j \in DOMAIN registry : registry[j].role = "debater"}} IN
    IF orders = {} THEN 4 ELSE Greatest(orders)

\* the greatest sort_order an agent is created with
MaxOrder == 7

\* how the file system answers: every write succeeds, or the first or the
\* second write of the call fails
IoResults == {"ok", "first write fails", "second write fails"}

\* create_custom_agent: derive the key, refuse an empty or a taken key, write
\* the prompt file, push the agent and save the registry
create_custom_agent(label, io) ==
    LET registry == agents_dir.registry
        key == derive_key(label)
        agent == AgentInfo(key, concat(label), pick_color(registry), "debater", FALSE,
                           max_debater_order(registry) + 1)
        refused == IF key = ""
                   THEN "Agent name must contain at least one alphanumeric character"
                   ELSE IF any_key(registry, key)
                   THEN "An agent with key '" \o key \o "' already exists"
                   ELSE "ok" IN
    /\ agent.sort_order <= MaxOrder
    /\ agents_dir' =
          IF refused # "ok" \/ io = "first write fails" THEN agents_dir
          ELSE [registry |-> IF io = "ok" THEN Append(registry, agent) ELSE registry,
                files |-> agents_dir.files \cup {key \o ".md"},
                edited |-> agents_dir.edited \ {key \o ".md"}]
    /\ reply' = Reply("create_custom_agent", concat(label),
                      IF refused # "ok" THEN refused
                      ELSE IF io # "ok" THEN "io error" ELSE "ok")
    /\ UNCHANGED <<status, summary, brief, completed_at, rounds, debate_cancel_flags,
                   cancel_flag, run, inflight, events, pure, summary_json,
                   has_tts, debate_audio, conversations, messages, conversation_id>>

\* the keys delete_custom_agent is called with
KeyInputs == ({derive_key(l) : l \in LabelInputs} \ {""}) \cup {"rationalist", "nobody"}

\* delete_custom_agent: refuse an unknown key and a built-in, drop the agent
\* and save the registry, remove the prompt file
delete_custom_agent(agent_key, io) ==
    LET registry == agents_dir.registry
        found == {i \in DOMAIN registry : registry[i].key = agent_key}
        refused == IF found = {} THEN "Agent '" \o agent_key \o "' not found"
                   ELSE IF registry[Least(found)].builtin
                   THEN "Cannot delete built-in agents"
                   ELSE "ok" IN
    /\ agents_dir' =
          IF refused # "ok" \/ io = "first write fails" THEN agents_dir
          ELSE [registry |-> SelectSeq(registry, LAMBDA a : a.key # agent_key),
                files |-> IF io = "ok" THEN agents_dir.files \ {agent_key \o ".md"}
                          ELSE agents_dir.files,
                edited |-> IF io = "ok" THEN agents_dir.edited \ {agent_key \o ".md"}
                           ELSE agents_dir.edited]
    /\ reply' = Reply("delete_custom_agent", agent_key,
                      IF refused # "ok" THEN refused
                      ELSE IF io # "ok" THEN "io error" ELSE "ok")
    /\ UNCHANGED <<status, summary, brief, completed_at, rounds, debate_cancel_flags,
                   cancel_flag, run, inflight, events, pure, summary_json,
                   has_tts, debate_audio, conversations, messages, conversation_id>>

\* agents created and deleted in any order, under any label and key
NextAgents ==
    \/ \E label \in LabelInputs, io \in IoResults : create_custom_agent(label, io)
    \/ \E agent_key \in KeyInputs, io \in IoResults : delete_custom_agent(agent_key, io)

SpecAgents == Init /\ [][NextAgents]_vars

\* the prompt files update_agent_file is called for
FileInputs == {"rationalist.md", "moderator.md"}

\* update_agent_file: replace the content of the named file
update_agent_file(filename) ==
    /\ agents_dir' = [agents_dir EXCEPT !.files = @ \cup {filename},
                                        !.edited = @ \cup {filename}]
    /\ reply' = Reply("update_agent_file", filename, "ok")
    /\ UNCHANGED <<status, summary, brief, completed_at, rounds, debate_cancel_flags,
                   cancel_flag, run, inflight, events, pure, summary_json,
                   has_tts, debate_audio, conversations, messages, conversation_id>>

\* one run against a healthy completion service while the committee screen
\* edits prompt files and adds and removes a persona
NextPrompt ==
    \/ \E q \in BOOLEAN : Started = {} /\ start_debate("dA", q)
    \/ \E r \in Runs : BeginRun(r)
    \/ \E r \in Runs : RoundStart(r)
    \/ \E r \in Runs : AgentCheck(r)
    \/ \E r \in Runs, o \in OkOutcomes : CallReturns(r, o)
    \/ \E r \in Runs : Boundary(r)
    \/ \E r \in Runs, o \in OkOutcomes : ModReturns(r, o)
    \/ \E r \in Runs : UpdateSummary(r, TRUE)
    \/ \E r \in Runs : MarkComplete(r)
    \/ \E filename \in FileInputs : update_agent_file(filename)
    \/ create_custom_agent(<<"Economist">>, "ok")
    \/ delete_custom_agent("economist", "ok")

SpecPrompt == Init /\ [][NextPrompt]_vars

\* ------------------------------------------------ db.rs: the conversations
\* the messages the table may hold at a time
MaxMessages == 2

\* the turns a decision may have on file
RowsOnFile(d) ==
    {Row(d, NoRun, <<1, 1>>, AgentKeys[1]), Row(d, NoRun, ModeratorCoord, Moderator)}

\* a database with any conversations, decisions and turns in it; every
\* decision belongs to a conversation that exists, every turn to a decision
\* that exists
InitDelete ==
    /\ status = [d \in Decisions |-> "exploring"]
    /\ summary = [d \in Decisions |-> NoRun]
    /\ brief = [d \in Decisions |-> NoRun]
    /\ completed_at = [d \in Decisions |-> FALSE]
    /\ debate_cancel_flags = [d \in Decisions |-> NoRun]
    /\ cancel_flag = [r \in Runs |-> FALSE]
    /\ run = [r \in Runs |-> IdleRun]
    /\ inflight = {}
    /\ events = [r \in Runs |-> <<>>]
    /\ reply = NoReply
    /\ pure = NoEval
    /\ has_tts = FALSE
    /\ debate_audio = [d \in Decisions |-> FALSE]
    /\ agents_dir = [registry |-> builtin_agents, files |-> BuiltinFiles, edited |-> {}]
    /\ conversations \in SUBSET Conversations
    /\ conversation_id \in [Decisions -> Conversations]
    /\ summary_json \in [Decisions -> {Absent, NoText, StoredSummary}]
    /\ \A d \in Decisions : summary_json[d] # Absent => conversation_id[d] \in conversations
    /\ rounds \in SUBSET UNION {RowsOnFile(d) : d \in {x \in Decisions : summary_json[x] # Absent}}
    /\ messages = {}

\* add_message: insert the message under a fresh id.  Whether the insert for
\* a conversation that does not exist is refused depends on the foreign-key
\* enforcement of the SQLite build
add_message(c, enforced) ==
    LET free == (1..MaxMessages) \ {x.id : x \in messages} IN
    /\ IF c \notin conversations /\ enforced
       THEN /\ UNCHANGED messages
            /\ reply' = Reply("add_message", c, "FOREIGN KEY constraint failed")
       ELSE /\ free # {}
            /\ messages' = messages \cup {[id |-> Least(free), conversation_id |-> c]}
            /\ reply' = Reply("add_message", c, "ok")
    /\ UNCHANGED <<status, summary, brief, completed_at, rounds, debate_cancel_flags,
                   cancel_flag, run, inflight, events, pure, summary_json,
                   has_tts, debate_audio, agents_dir, conversations, conversation_id>>

\* faulty variant of delete_conversation: the turns are matched on the
\* conversation id instead of the ids of its decisions
delete_conversation_by_id(c) ==
    LET owned == {d \in Decisions : summary_json[d] # Absent /\ conversation_id[d] = c} IN
    /\ rounds' = {x \in rounds : x.decision_id # c}
    /\ messages' = {x \in messages : x.conversation_id # c}
    /\ summary_json' = [d \in Decisions |-> IF d \in owned THEN Absent ELSE summary_json[d]]
    /\ conversations' = conversations \ {c}
    /\ reply' = Reply("delete_conversation", c, "ok")
    /\ UNCHANGED <<status, summary, brief, completed_at, debate_cancel_flags,
                   cancel_flag, run, inflight, events, pure,
                   has_tts, debate_audio, agents_dir, conversation_id>>

\* delete_conversation: delete the turns of the conversation's decisions, its
\* messages, its decisions, the conversation
delete_conversation(c) ==
    LET owned == {d \in Decisions : summary_json[d] # Absent /\ conversation_id[d] = c} IN
    /\ rounds' = {x \in rounds : x.decision_id \notin owned}
    /\ messages' = {x \in messages : x.conversation_id # c}
    /\ summary_json' = [d \in Decisions |-> IF d \in owned THEN Absent ELSE summary_json[d]]
    /\ conversations' = conversations \ {c}
    /\ reply' = Reply("delete_conversation", c, "ok")
    /\ UNCHANGED <<status, summary, brief, completed_at, debate_cancel_flags,
                   cancel_flag, run, inflight, events, pure,
                   has_tts, debate_audio, agents_dir, conversation_id>>

\* messages added and conversations deleted in any order
NextDelete ==
    \/ \E c \in Conversations, enforced \in BOOLEAN : add_message(c, enforced)
    \/ \E c \in Conversations : delete_conversation(c)

SpecDelete == InitDelete /\ [][NextDelete]_vars

\* ------------------------------------------- run_debate under any selection
\* the selections run_debate is spawned with: none, the committee's, one
\* persona, the moderator alone, a key of no agent
Selections ==
    {None, DefaultSelection, Some(<<"advocate">>), Some(<<Moderator>>), Some(<<"nobody">>)}

\* a run just spawned for decision dA, which may have the turns and the
\* status of an earlier debate
InitSelect ==
    /\ status \in [Decisions -> {"analyzing", "recommended"}]
    /\ summary = [d \in Decisions |-> NoRun]
    /\ brief = [d \in Decisions |-> NoRun]
    /\ completed_at \in [Decisions -> BOOLEAN]
    /\ rounds \in {{}, RowsOnFile("dA")}
    /\ debate_cancel_flags = [d \in Decisions |-> IF d = "dA" THEN 1 ELSE NoRun]
    /\ cancel_flag = [r \in Runs |-> FALSE]
    /\ \E selected_agent_keys \in Selections :
          run = [r \in Runs |->
                   IF r = 1
                   THEN [IdleRun EXCEPT !.pc = "start", !.decision_id = "dA",
                                         !.quick_mode = TRUE,
                                         !.selected_agent_keys = selected_agent_keys]
                   ELSE IdleRun]
    /\ inflight = {}
    /\ events = [r \in Runs |-> <<>>]
    /\ reply = Reply("start_debate", "dA", "ok")
    /\ pure = NoEval
    /\ has_tts = FALSE
    /\ debate_audio = [d \in Decisions |-> FALSE]
    /\ agents_dir = [registry |-> builtin_agents, files |-> BuiltinFiles, edited |-> {}]
    /\ conversations = Conversations
    /\ messages = {}
    /\ conversation_id = [d \in Decisions |-> IF d = "dA" THEN "cA" ELSE "cB"]
    /\ summary_json = [d \in Decisions |-> StoredSummary]

\* the quick run, its calls failing or not, cancel_debate arriving at any
\* moment
NextSelect ==
    \/ cancel_debate("dA")
    \/ \E r \in Runs : BeginRun(r)
    \/ \E r \in Runs : RoundStart(r)
    \/ \E r \in Runs : AgentCheck(r)
    \/ \E r \in Runs, o \in Outcomes(MAX_RETRIES) : CallReturns(r, o)
    \/ \E r \in Runs : Boundary(r)
    \/ \E r \in Runs, o \in Outcomes(MAX_RETRIES) : ModReturns(r, o)
    \/ \E r \in Runs : UpdateSummary(r, TRUE)
    \/ \E r \in Runs : MarkComplete(r)

SpecSelect == InitSelect /\ [][NextSelect]_vars

\* ================================================================== claims
IsPrefix(p, q) == Len(p) <= Len(q) /\ \A i \in 1..Len(p) : p[i] = q[i]

DecisionOf(r) == run[r].decision_id
InFlight(r) == run[r].pc \notin {"idle", "done"}
Ended(r) == run[r].pc = "done"
Roster(r) == Range(run[r].debaters)

\* cancel_debate set the run's token while the run was in flight
CancelledInFlight(r) == run[r].cancelled_at[1] \notin {"none", "done"}

Emitted(r, type) == \E i \in DOMAIN events[r] : events[r][i].type = type

EmittedError(r, msg) ==
    \E i \in DOMAIN events[r] :
        events[r][i].type = "debate-error" /\ events[r][i].content = msg

RowsOf(d) == {x \in rounds : x.decision_id = d}

\* the debate-agent-response events of one round, in emission order
Responses(r, coord) ==
    SelectSeq(events[r], LAMBDA e : /\ e.type = "debate-agent-response"
                                    /\ <<e.round_number, e.exchange_number>> = coord)

\* the debaters whose placeholder / whose turn was emitted in a round
FailedIn(r, coord) ==
    {e.content : e \in {x \in Range(Responses(r, coord)) : x.agent = ErrorAgent}}
SpokeIn(r, coord) ==
    {e.agent : e \in {x \in Range(Responses(r, coord)) : x.agent # ErrorAgent}}

RoundReturned(r, coord) ==
    \E i \in DOMAIN events[r] :
        /\ events[r][i].type = "debate-round-complete"
        /\ <<events[r][i].round_number, events[r][i].exchange_number>> = coord

RoundsReturned(r) ==
    Cardinality({i \in DOMAIN events[r] : events[r][i].type = "debate-round-complete"})

Round1Rows(r) == {Row(DecisionOf(r), r, <<1, 1>>, a) : a \in Roster(r)}

\* C1: once cancel_debate has set the token of a run in flight, that run
\* never persists a merged summary, never sets the status to recommended and
\* never emits debate-complete; when it has ended the status is analyzing.
C1_CancelledRunNeverProceeds ==
    \A r \in Runs :
        CancelledInFlight(r) =>
            /\ summary[DecisionOf(r)] # r
            /\ status[DecisionOf(r)] # "recommended"
            /\ ~Emitted(r, "debate-complete")
            /\ Ended(r) => status[DecisionOf(r)] = "analyzing"

\* C2: when every round-1 call succeeded and the cancellation was requested
\* after round 1 returned and before round 2 was entered, the ended run
\* leaves exactly the round-1 turns (one per debater), status analyzing, and
\* a cancellation event.
CancelledAfterRound1(r) ==
    run[r].cancelled_at \in {<<"boundary", 1>>, <<"round_start", 2>>}

C2_CancelBetweenRounds ==
    \A r \in Runs :
        (/\ Ended(r)
         /\ CancelledAfterRound1(r)
         /\ Round1Rows(r) \subseteq Range(run[r].all_rounds))
        => /\ RowsOf(DecisionOf(r)) = Round1Rows(r)
           /\ Cardinality(RowsOf(DecisionOf(r))) = NumDebaters
           /\ status[DecisionOf(r)] = "analyzing"
           /\ EmittedError(r, CancelledMsg)

C2_Witness ==
    \E r \in Runs :
        /\ Ended(r)
        /\ ~run[r].quick_mode
        /\ run[r].cancelled_at = <<"boundary", 1>>
        /\ RowsOf(DecisionOf(r)) = Round1Rows(r)
        /\ EmittedError(r, CancelledMsg)

\* C3: a quick-mode run whose calls all succeed and that is never cancelled
\* ends with one round-1 turn per debater, one moderator turn at round 99,
\* no turn at round 2 or 3, and status recommended.
AllCallsSucceeded(r) ==
    /\ run[r].result = "ok"
    /\ \A i \in DOMAIN events[r] : events[r][i].agent # ErrorAgent

C3_QuickRunOutcome ==
    \A r \in Runs :
        (Ended(r) /\ run[r].quick_mode /\ ~cancel_flag[r] /\ AllCallsSucceeded(r))
        => /\ RowsOf(DecisionOf(r)) =
                Round1Rows(r) \cup {Row(DecisionOf(r), r, ModeratorCoord, Moderator)}
           /\ Cardinality({x \in RowsOf(DecisionOf(r)) : x.round_number = 1}) = NumDebaters
           /\ Cardinality({x \in RowsOf(DecisionOf(r)) : x.round_number = MODERATOR_ROUND}) = 1
           /\ \A x \in RowsOf(DecisionOf(r)) : x.round_number \notin {2, 3}
           /\ status[DecisionOf(r)] = "recommended"

C3_Witness ==
    \E r \in Runs :
        /\ Ended(r) /\ run[r].quick_mode /\ ~cancel_flag[r] /\ AllCallsSucceeded(r)
        /\ Row(DecisionOf(r), r, ModeratorCoord, Moderator) \in rounds
        /\ status[DecisionOf(r)] = "recommended"

\* C4: a non-quick run that is never cancelled invokes the Round Runner for
\* (1,1), (2,1), (2,2), (3,1) in that order, each round only after the
\* previous one returned, then the moderator once at (99,1), and only then
\* updates the summary and completes; nothing is skipped or repeated.
FullSequence == << <<1, 1>>, <<2, 1>>, <<2, 2>>, <<3, 1>>, <<MODERATOR_ROUND, 1>> >>

C5_PromptHasSameRoundTurns ==
    \A r \in Runs :
        run[r].pc = "calling" =>
            \A x \in Range(run[r].new_rounds) :
                \E i \in DOMAIN run[r].user_prompt : run[r].user_prompt[i] = TurnLine(x)

\* C6: a debater whose call fails after all retries does not abort the round:
\* every debater of the roster is still answered for, in roster order, by a
\* persisted turn or by one placeholder with no persisted turn; the round
\* returns and the run goes on.
RespondentOf(e) == IF e.agent = ErrorAgent THEN e.content ELSE e.agent

C6_FailureDoesNotAbortRound ==
    \A r \in Runs :
        /\ \A i \in 1..Len(RoundPlan(run[r].quick_mode)) :
            LET coord == RoundPlan(run[r].quick_mode)[i]
                resp == Responses(r, coord) IN
            /\ \A j \in DOMAIN resp : RespondentOf(resp[j]) = run[r].debaters[j]
            /\ RoundReturned(r, coord) => Len(resp) = Len(run[r].debaters)
            /\ \A a \in FailedIn(r, coord) : Row(DecisionOf(r), r, coord, a) \notin rounds
            /\ \A a \in SpokeIn(r, coord) : Row(DecisionOf(r), r, coord, a) \in rounds
            /\ (FailedIn(r, coord) # {} /\ Ended(r) /\ ~cancel_flag[r])
                   => RoundReturned(r, coord)
        /\ (Ended(r) /\ run[r].result = "err")
               => \/ cancel_flag[r] /\ EmittedError(r, CancelledMsg)
                  \/ EmittedError(r, ModeratorFailedMsg)

C6_Witness ==
    \E r \in Runs :
        /\ Ended(r) /\ run[r].result = "ok" /\ ~cancel_flag[r]
        /\ FailedIn(r, <<1, 1>>) = {run[r].debaters[1]}
        /\ Row(DecisionOf(r), r, <<1, 1>>, run[r].debaters[2]) \in rounds
        /\ RoundReturned(r, <<1, 1>>)
        /\ status[DecisionOf(r)] = "recommended"

\* C7: a run has at most one completion call in flight: the call of the
\* current debater of the current round, started after the debaters before
\* it were answered for, or the moderator's call, started after every round
\* returned.
InFlightOf(r) == {c \in inflight : c.run = r}

C7_OneCallInFlight ==
    \A r \in Runs :
        /\ Cardinality(InFlightOf(r)) <= 1
        /\ \A c \in InFlightOf(r) :
            \/ /\ run[r].pc = "calling"
               /\ c = Call(r, Coord(r), Agent(r))
               /\ Len(Responses(r, Coord(r))) = run[r].k - 1
               /\ RoundsReturned(r) = run[r].ci - 1
            \/ /\ run[r].pc = "mod_calling"
               /\ c = Call(r, ModeratorCoord, Moderator)
               /\ RoundsReturned(r) = Len(RoundPlan(run[r].quick_mode))

C7_Witness ==
    \E r \in Runs :
        /\ run[r].pc = "calling" /\ run[r].k = 2 /\ run[r].ci = 2
        /\ InFlightOf(r) = {Call(r, <<2, 1>>, run[r].debaters[2])}

\* C8: a call in flight when the token is set is not interrupted and may
\* persist its turn; after the token is set the run persists at most one
\* further turn and starts no completion call.
C8_CooperativeCancel ==
    \A r \in Runs :
        /\ run[r].after_cancel <= 1
        /\ run[r].calls_after_cancel = 0
        /\ run[r].pc \in {"calling", "mod_calling"} => InFlightOf(r) # {}
        /\ (cancel_flag[r] /\ run[r].cancelled_at[1] \notin {"calling", "mod_calling"})
               => run[r].after_cancel = 0

C8_Witness ==
    \E r \in Runs :
        /\ Ended(r)
        /\ run[r].cancelled_at[1] = "calling"
        /\ run[r].after_cancel = 1

\* C9: the token registered for a decision in the cancel-flag map is the
\* token polled by every run of that decision that is in flight, so that
\* cancel_debate reaches every such run.
C9_OneTokenPerDecision ==
    \A r \in Runs :
        (InFlight(r) /\ ~cancel_flag[r]) => debate_cancel_flags[DecisionOf(r)] = r

\* C10: when a run has ended, its token is no longer registered in the
\* cancel-flag map.
C10_EntryRemovedAtRunEnd ==
    \A r \in Runs : Ended(r) => debate_cancel_flags[DecisionOf(r)] # r

\* C11: once a run has cleared the decision's prior turns, every turn
\* persisted for that decision was produced by that run: no turn of an
\* earlier run appears, not even one whose call was in flight when the
\* earlier run was cancelled and the new run was started.
C11_OnlyTurnsOfClearingRun ==
    \A d \in Decisions :
        brief[d] # NoRun => \A x \in RowsOf(d) : x.run = brief[d]

\* C12: for every max_retries m and every sequence of attempt results,
\* call_agent_with_retry makes attempts until the first success or until
\* m+1 attempts have failed: it returns the text of the first successful
\* attempt and makes no attempt after it, and when all m+1 attempts fail it
\* returns a failure naming the persona label, the count m+1 and the last
\* error.
Retried(p) == p.fn = "call_agent_with_retry" /\ p.done

C12_RetryUntilFirstSuccess ==
    Retried(pure) =>
        LET m == pure.max_retries
            o == pure.outcomes
            res == pure.result
            succeeded == {i \in 1..(m + 1) : o[i] = "ok"} IN
        IF succeeded # {}
        THEN LET first == CHOOSE i \in succeeded : \A j \in succeeded : i <= j IN
             /\ res.ok
             /\ res.attempts = first
             /\ res.text = TextOf(first)
        ELSE /\ ~res.ok
             /\ res.attempts = m + 1
             /\ res.failure = [agent_label |-> pure.agent_label, retries |-> m + 1,
                               last_err |-> o[m + 1]]

C12_Witness ==
    /\ Retried(pure)
    /\ pure.max_retries = MAX_RETRIES
    /\ pure.outcomes = <<"Network error", "Stream error", "ok">>
    /\ pure.result.ok /\ pure.result.attempts = 3

MergeDone(p) == p.fn = "merge_summary" /\ p.us # <<>> /\ p.cur # Panic
LastUpdate(p) == p.us[Len(p.us)]

\* C13: after the summary update of a run, the persisted summary contains
\* the consensus points, key disagreements, identified biases and
\* final-vote excerpts extracted from the moderator's text, whether or not
\* a structured recommendation was found.
C13_SummaryHasDebateFields ==
    (MergeDone(pure) /\ Has(LastUpdate(pure), "debate_summary")) =>
        LET persisted == parse_existing(pure.cur) IN
        /\ Has(persisted, "debate_summary")
        /\ persisted.f.debate_summary = LastUpdate(pure).f.debate_summary

\* the entries of a section of a summary or update (none when the section
\* is missing or no array), the positions of the entries with key string k,
\* the key strings an update targets
Entries(v, sec) == IF HasArray(v, sec.array_key) THEN v.f[sec.array_key].a ELSE <<>>
WithKey(a, key, k) == {i \in DOMAIN a : HasStr(a[i], key) /\ a[i].f[key].s = k}
Targets(u, sec) == {k \in EntryKeys : WithKey(Entries(u, sec), sec.key, k) # {}}

\* C14: for every stored summary S and updates U1, U2,
\* merge(merge(S, U1), U2) keeps unchanged every keyed entry of S whose key
\* neither update targets, and every key targeted by both updates ends up
\* with exactly U2's entry.
C14_TwoMerges ==
    (MergeDone(pure) /\ Len(pure.us) = 2) =>
        \A sec \in Sections :
            LET S == Entries(parse_existing(pure.s0), sec)
                R == Entries(parse_existing(pure.cur), sec)
                U2 == Entries(pure.us[2], sec)
                T1 == Targets(pure.us[1], sec)
                T2 == Targets(pure.us[2], sec) IN
            \A k \in EntryKeys :
                /\ (k \notin T1 \cup T2) =>
                       /\ WithKey(R, sec.key, k) = WithKey(S, sec.key, k)
                       /\ \A i \in WithKey(S, sec.key, k) : R[i] = S[i]
                /\ (k \in T1 \cap T2) =>
                       /\ Cardinality(WithKey(R, sec.key, k)) = 1
                       /\ \A i \in WithKey(R, sec.key, k) :
                              \A j \in WithKey(U2, sec.key, k) : R[i] = U2[j]

C14_Witness ==
    /\ MergeDone(pure) /\ Len(pure.us) = 2
    /\ pure.s0 = StoredSummary
    /\ \E sec \in Sections :
         /\ sec.array_key = "options"
         /\ "Stay" \in Targets(pure.us[1], sec) \cap Targets(pure.us[2], sec)
         /\ "Leave" \notin Targets(pure.us[1], sec) \cup Targets(pure.us[2], sec)
         /\ Len(Entries(parse_existing(pure.cur), sec)) = 2

\* C15: merge_summary never fails because of a corrupt stored summary: an
\* absent text, a text that is not JSON, JSON that is not an object (an
\* array, a number, a string) or an object whose options, variables or
\* pros_cons is not an array are treated as empty and the merge returns.
C15_MergeNeverFails ==
    pure.fn = "merge_summary" => pure.cur # Panic

\* C16: for any update U and any stored text that is not valid JSON,
\* merge_summary succeeds and returns a summary containing exactly U's
\* data.
C16_InvalidTextGivesUpdate ==
    (pure.fn = "merge_summary" /\ pure.s0 = NotJson /\ Len(pure.us) = 1) =>
        pure.cur = to_string(pure.us[1])

\* C17: merging into an absent summary is the same as merging into the
\* empty object: merge_summary(None, U) = merge_summary(Some("{}"), U) for
\* every update U.
C17_AbsentIsEmptyObject ==
    (pure.fn = "merge_summary" /\ pure.s0 = NoText /\ Len(pure.us) = 1) =>
        pure.cur = merge_summary(to_string(EmptyObj), pure.us[1])

C17_Witness ==
    /\ pure.fn = "merge_summary" /\ pure.s0 = NoText /\ Len(pure.us) = 1
    /\ HasArray(pure.us[1], "options")
    /\ HasArray(parse_existing(pure.cur), "options")
    /\ Len(parse_existing(pure.cur).f.options.a) = MaxItems

\* C18: if the update has a recommendation field, the merged summary's
\* recommendation equals the update's exactly (no field of the prior
\* recommendation survives); if it has none, the prior recommendation is
\* preserved unchanged.
C18_RecommendationReplaced ==
    MergeDone(pure) =>
        LET before == parse_existing(pure.prev)
            after == parse_existing(pure.cur)
            u == LastUpdate(pure) IN
        IF Has(u, "recommendation")
        THEN Has(after, "recommendation")
             /\ after.f.recommendation = u.f.recommendation
        ELSE /\ Has(after, "recommendation") <=> Has(before, "recommendation")
             /\ Has(before, "recommendation") =>
                    after.f.recommendation = before.f.recommendation

C18_Witness ==
    /\ MergeDone(pure)
    /\ pure.prev = StoredSummary
    /\ Has(LastUpdate(pure), "recommendation")
    /\ parse_existing(pure.cur).f.recommendation = Rec(1)

Parsed(p) == p.fn = "parse_moderator_recommendation" /\ p.done
\* a line of the text carries the "**Choice**" marker
HasChoiceMarker(text) == \E i \in DOMAIN text : text[i].kind = "bold" /\ text[i].label = "Choice"
RecSection(p) == extract_section(p.moderator_response, "Recommendation")

\* C19 as stated: for any moderator text with no "**Choice**" marker
\* anywhere the parser returns "no recommendation", also when the text has
\* a Recommendation heading but no Choice field.
C19_NoChoiceNoRecommendation ==
    (Parsed(pure) /\ ~HasChoiceMarker(pure.moderator_response)) =>
        pure.recommendation = None

\* C19 amended: for a text with no "**Choice**" marker the parser returns
\* "no recommendation" exactly when the text has no non-empty
\* Recommendation section; with such a section it returns a recommendation
\* whose choice is the placeholder "See moderator's synthesis".  It never
\* returns "no recommendation" for a text that carries the marker.
C19_NoMarkersNoRecommendation ==
    Parsed(pure) =>
        /\ (~HasChoiceMarker(pure.moderator_response) /\ RecSection(pure) = <<>>)
               => pure.recommendation = None
        /\ (~HasChoiceMarker(pure.moderator_response) /\ RecSection(pure) # <<>>)
               => /\ pure.recommendation.some
                  /\ pure.recommendation.v.choice = Placeholder
        /\ pure.recommendation = None => ~HasChoiceMarker(pure.moderator_response)

C19_Witness ==
    /\ Parsed(pure)
    /\ pure.moderator_response = <<Heading("Recommendation"), Plain("- Point A")>>
    /\ pure.recommendation.some
    /\ pure.recommendation.v.choice = Placeholder

\* the text the fields are read from, and the rest of the line of the first
\* "**label**:" in it ("" when there is none)
Scanned(p) == IF RecSection(p) = <<>> THEN p.moderator_response ELSE RecSection(p)
FieldLines(text, label) ==
    {i \in DOMAIN text : text[i].kind = "bold" /\ text[i].label = label /\ text[i].colon}
FirstField(text, label) ==
    IF FieldLines(text, label) = {} THEN "" ELSE text[Least(FieldLines(text, label))].rest

Levels == {"high", "medium", "low"}

\* the choice is the Choice field's text, trimmed
ChoiceIsFieldText(p) ==
    FirstField(Scanned(p), "Choice") \in {"Option B", "  Option B  "}
        => p.recommendation.v.choice = "Option B"

\* C20 as stated: whenever the parser returns a recommendation its
\* confidence is exactly one of high, medium, low: a Confidence value of
\* High, Medium or Low in any letter case maps to the matching level, a
\* missing or unrecognized value gives medium; the choice is the Choice
\* field's text unchanged apart from trimming.
C20_ConfidenceNormalized ==
    (Parsed(pure) /\ pure.recommendation.some) =>
        LET value == FirstField(Scanned(pure), "Confidence") IN
        /\ pure.recommendation.v.confidence \in Levels
        /\ pure.recommendation.v.confidence =
               (CASE value \in {"High", "HIGH"} -> "high"
                  [] value = "Low" -> "low"
                  [] OTHER -> "medium")
        /\ ChoiceIsFieldText(pure)

\* C20 amended: whenever the parser returns a recommendation its confidence
\* is exactly one of high, medium, low: a Confidence value that contains
\* "high" in any letter case gives high, otherwise a value that contains
\* "low" in any letter case gives low, also inside another word, and a
\* missing value or one containing neither gives medium; the choice is the
\* Choice field's text unchanged apart from trimming.
C20_ConfidenceBySubstring ==
    (Parsed(pure) /\ pure.recommendation.some) =>
        LET value == FirstField(Scanned(pure), "Confidence") IN
        /\ pure.recommendation.v.confidence \in Levels
        /\ pure.recommendation.v.confidence =
               (CASE value \in {"High", "HIGH"} -> "high"
                  [] value \in {"Low", "Follow-up needed"} -> "low"
                  [] OTHER -> "medium")
        /\ ChoiceIsFieldText(pure)

C20_Witness ==
    /\ Parsed(pure)
    /\ pure.moderator_response = <<Heading("Recommendation"),
                                   Bold("Choice", TRUE, "  Option B  "),
                                   Bold("Confidence", TRUE, "HIGH")>>
    /\ pure.recommendation = Some([choice |-> "Option B", confidence |-> "high"])

Rendered(p) == p.fn = "format_transcript" /\ p.done
CoordOf(x) == <<x.round_number, x.exchange_number>>
IsHeader(section) == "header" \in DOMAIN section
\* the turns whose coordinate differs from the previous turn's
BucketStarts(t) == {i \in DOMAIN t : i = 1 \/ CoordOf(t[i]) # CoordOf(t[i - 1])}
StartsUpTo(t, i) == Cardinality({b \in BucketStarts(t) : b <= i})
HeadersOf(out) == {j \in DOMAIN out : IsHeader(out[j])}

\* C21: format_transcript emits one header each time the (round_number,
\* exchange_number) pair differs from the previous turn's, and exactly one
\* "<Label>: <content>" line per turn, placed after its bucket's header in
\* input order; turns ordered over (1,1), (2,1), (2,2), (3,1) give exactly
\* 4 headers in that order.
C21_TranscriptHeaders ==
    Rendered(pure) =>
        LET t == pure.turns
            out == pure.sections IN
        /\ Len(out) = Len(t) + Cardinality(BucketStarts(t))
        /\ Cardinality(HeadersOf(out)) = Cardinality(BucketStarts(t))
        /\ \A i \in DOMAIN t :
               out[i + StartsUpTo(t, i)] =
                   [label |-> find_label(t[i].agent), content |-> t[i]]
        /\ \A b \in BucketStarts(t) :
               out[b + StartsUpTo(t, b) - 1] = Header(t[b].round_number, t[b].exchange_number)

C21_Witness ==
    /\ Rendered(pure)
    /\ [i \in DOMAIN pure.turns |-> CoordOf(pure.turns[i])]
           = << <<1, 1>>, <<2, 1>>, <<2, 2>>, <<3, 1>> >>
    /\ HeadersOf(pure.sections) = {1, 3, 5, 7}
    /\ pure.sections[3] = [header |-> "Round 2 (exchange {})", n |-> 1]
    /\ pure.sections[5] = [header |-> "Round 2 (exchange {})", n |-> 2]

\* the list under key is missing, no list, or empty
NoEntries(v, key) ==
    ~(v.t = "obj" /\ key \in DOMAIN v.f /\ v.f[key].t = "arr" /\ Len(v.f[key].a) > 0)
\* the decision does not exist, has no summary, has a summary that is not
\* valid JSON, or lacks a non-empty options or variables list
NotReady(row) ==
    \/ row \in {Absent, NoText, NotJson}
    \/ row.t = "text" /\ row.valid
          /\ (NoEntries(row.v, "options") \/ NoEntries(row.v, "variables"))

\* C22: start_debate for a decision that does not exist, has no summary,
\* has a summary that is not valid JSON, or lacks a non-empty options list
\* or a non-empty variables list returns an error to the caller and
\* mutates nothing: turns, status, brief and the cancel-flag map are
\* unchanged, no run is spawned and no event is emitted.
C22_RejectedStartMutatesNothing ==
    [][\A d \in Decisions :
          (/\ NotReady(summary_json[d])
           /\ reply' # reply
           /\ reply'.cmd = "start_debate" /\ reply'.decision_id = d)
          => /\ reply'.result # "ok"
             /\ UNCHANGED <<status, summary, brief, completed_at, rounds,
                            debate_cancel_flags, cancel_flag, run, inflight, events,
                            summary_json>>]_vars

C22_Witness ==
    /\ reply.cmd = "start_debate" /\ reply.decision_id = "dA"
    /\ reply.result = NeedsEntriesMsg
    /\ summary_json["dA"] = to_string(JObj([options |-> JArr(<<Item("label", "Stay", 0)>>)]))
    /\ debate_cancel_flags["dA"] = NoRun
    /\ \A r \in Runs : run[r].pc = "idle"
    /\ rounds = {} /\ status["dA"] = "exploring"

StatusValues == {"exploring", "analyzing", "debating", "recommended", "decided", "reviewed"}

\* C23: after any sequence of operations (run start, run completion,
\* cancellation, the update_decision_status command, the summary tool) the
\* decision status is one of exploring, analyzing, debating, recommended,
\* decided, reviewed.
C23_StatusInDomain ==
    \A d \in Decisions : status[d] \in StatusValues

\* the coordinates a turn may be persisted under
TurnCoords == {<<1, 1>>, <<2, 1>>, <<2, 2>>, <<3, 1>>, <<99, 1>>}

\* the turns run r persisted and emitted at a coordinate under an author
TurnsBy(r, coord, agent) ==
    {i \in DOMAIN events[r] :
        /\ events[r][i].type = "debate-agent-response"
        /\ <<events[r][i].round_number, events[r][i].exchange_number>> = coord
        /\ events[r][i].agent = agent}

\* C24: every turn a run persisted lies at (1,1), (2,1), (2,2), (3,1) or
\* (99,1); a turn of round 99 is the moderator's and the run has at most one;
\* every other turn is by a debater of the run's roster, and the run saved at
\* most one turn per debater per coordinate.
C24_TurnsWellFormed ==
    /\ \A x \in rounds :
          /\ <<x.round_number, x.exchange_number>> \in TurnCoords
          /\ IF x.round_number = MODERATOR_ROUND
             THEN x.agent = Moderator
             ELSE x.agent \in Roster(x.run)
    /\ \A r \in Runs :
          /\ \A i \in DOMAIN events[r] :
                (events[r][i].type = "debate-agent-response"
                 /\ events[r][i].agent # ErrorAgent)
                => /\ <<events[r][i].round_number, events[r][i].exchange_number>>
                         \in TurnCoords
                   /\ (events[r][i].round_number = MODERATOR_ROUND)
                         <=> (events[r][i].agent = Moderator)
                   /\ events[r][i].agent \in Roster(r) \cup {Moderator}
          /\ \A coord \in TurnCoords, a \in Roster(r) \cup {Moderator} :
                Cardinality(TurnsBy(r, coord, a)) <= 1

\* a full run persisted every debater's turn at the four coordinates and the
\* moderator's turn
C24_Witness ==
    \E r \in Runs :
        /\ Ended(r) /\ ~run[r].quick_mode
        /\ \A coord \in TurnCoords \ {ModeratorCoord}, a \in Roster(r) :
              /\ Row(DecisionOf(r), r, coord, a) \in rounds
              /\ Cardinality(TurnsBy(r, coord, a)) = 1
        /\ Row(DecisionOf(r), r, ModeratorCoord, Moderator) \in rounds
        /\ Cardinality(TurnsBy(r, ModeratorCoord, Moderator)) = 1

\* positions of the events of a type in what run r emitted
EventsOf(r, type) == {i \in DOMAIN events[r] : events[r][i].type = type}

\* run r emits debate-complete in this step
EmitsComplete(r) ==
    /\ Len(events'[r]) > Len(events[r])
    /\ events'[r][Len(events'[r])].type = "debate-complete"

\* run r emits an event of the type in this step
EmitsNow(r, type) ==
    /\ Len(events'[r]) > Len(events[r])
    /\ \E i \in (Len(events[r]) + 1)..Len(events'[r]) : events'[r][i].type = type

\* run r has emitted its moderator turn and the summary update; each is
\* emitted by the step that persists it
SynthesisPersisted(r) ==
    /\ TurnsBy(r, ModeratorCoord, Moderator) # {}
    /\ EventsOf(r, "decision-summary-updated") # {}

\* C25: a run emits debate-complete at most once, and only after its
\* moderator turn was persisted at (99,1) and the merged summary was
\* persisted, with the completion timestamp set and the status recommended
\* when it is emitted; a run sets the status to recommended only with its
\* moderator turn and the merged summary already persisted.
C25_CompleteOnlyAfterSynthesis ==
    /\ [](\A r \in Runs :
            /\ Cardinality(EventsOf(r, "debate-complete")) <= 1
            /\ \A i \in EventsOf(r, "debate-complete") :
                  /\ \E j \in TurnsBy(r, ModeratorCoord, Moderator) : j < i
                  /\ \E j \in EventsOf(r, "decision-summary-updated") : j < i)
    /\ [][\A r \in Runs :
            /\ (TurnsBy(r, ModeratorCoord, Moderator) = {}
                /\ EmitsNow(r, "debate-agent-response")
                /\ events'[r][Len(events'[r])].agent = Moderator)
               => Row(DecisionOf(r), r, ModeratorCoord, Moderator) \in rounds'
            /\ EmitsNow(r, "decision-summary-updated")
               => summary'[DecisionOf(r)] = r
            /\ EmitsComplete(r)
               => /\ SynthesisPersisted(r)
                  /\ completed_at'[DecisionOf(r)]
                  /\ status'[DecisionOf(r)] = "recommended"
            /\ (run'[r].pc # run[r].pc /\ run[r].pc # "idle"
                /\ status[DecisionOf(r)] # "recommended"
                /\ status'[DecisionOf(r)] = "recommended")
               => SynthesisPersisted(r)]_vars

\* a run has completed: its moderator turn and summary are stored, the
\* timestamp is set, the status is recommended, debate-complete is out
C25_Witness ==
    \E r \in Runs :
        /\ Ended(r) /\ run[r].result = "ok"
        /\ Cardinality(EventsOf(r, "debate-complete")) = 1
        /\ SynthesisPersisted(r)
        /\ Row(DecisionOf(r), r, ModeratorCoord, Moderator) \in rounds
        /\ summary[DecisionOf(r)] = r
        /\ completed_at[DecisionOf(r)]
        /\ status[DecisionOf(r)] = "recommended"

\* the turns run r has saved: its turn events other than placeholders
SavedTurns(r) ==
    {i \in EventsOf(r, "debate-agent-response") : events[r][i].agent # ErrorAgent}

\* the next step of run r's own task, the completion service answering
RunMoves(r) ==
    \/ BeginRun(r) \/ RoundStart(r) \/ AgentCheck(r) \/ Boundary(r)
    \/ \E o \in OkOutcomes : CallReturns(r, o)
    \/ \E o \in OkOutcomes : ModReturns(r, o)
    \/ UpdateSummary(r, TRUE) \/ MarkComplete(r)

\* an audio task of run r ends in this step
AudioEnds(r) ==
    \E i \in DOMAIN run[r].handles :
        /\ i \in DOMAIN run'[r].handles
        /\ run[r].handles[i] = "running" /\ run'[r].handles[i] # "running"

\* C26: with audio enabled and the debate calls succeeding, a run that is
\* never cancelled ends without error, with debate-complete emitted, the
\* completion timestamp set and the status recommended, whatever its audio
\* tasks came to; one audio task is spawned per saved turn, the run's own
\* steps up to debate-complete never wait for a task, the tasks are awaited
\* only after debate-complete; and the end of an audio task changes no
\* persisted turn, summary or status.
C26_AudioNeverFailsDebate ==
    /\ [](\A r \in Runs :
            /\ (Ended(r) /\ ~cancel_flag[r])
               => /\ run[r].result = "ok"
                  /\ Emitted(r, "debate-complete")
                  /\ ~Emitted(r, "debate-error")
                  /\ completed_at[DecisionOf(r)]
                  /\ status[DecisionOf(r)] = "recommended"
            /\ Len(run[r].handles) = Cardinality(SavedTurns(r))
            /\ run[r].pc \notin {"idle", "done", "await_audio"} => ENABLED RunMoves(r)
            /\ run[r].pc = "await_audio" => Emitted(r, "debate-complete"))
    /\ [][\A r \in Runs :
            AudioEnds(r)
            => /\ UNCHANGED <<rounds, summary, summary_json, status, completed_at>>
               /\ run'[r].pc = run[r].pc /\ run'[r].result = run[r].result]_vars

\* a run has ended without error, complete and recommended, with one audio
\* task that yielded a segment, one that reported an error and one that died
C26_Witness ==
    \E r \in Runs :
        /\ Ended(r) /\ run[r].result = "ok" /\ ~cancel_flag[r]
        /\ Emitted(r, "debate-complete")
        /\ status[DecisionOf(r)] = "recommended"
        /\ {"ready", "error", "died"} \subseteq Range(run[r].handles)

\* run r halted on seeing its token set
HaltedByCancellation(r) == Ended(r) /\ EmittedError(r, CancelledMsg)

\* C27: a run that halts because its cancellation token is set, wherever it
\* sees the token (between two rounds, at the start of a round, between two
\* debaters), ends without error: run_debate returns Ok and the only thing
\* surfaced is the one cancellation event.
C27_CancelledRunReturnsOk ==
    \A r \in Runs :
        HaltedByCancellation(r)
        => /\ run[r].result = "ok"
           /\ Cardinality(EventsOf(r, "debate-error")) = 1

\* the cancellation events run r has emitted
CancelEvents(r) ==
    {i \in EventsOf(r, "debate-error") : events[r][i].content = CancelledMsg}

\* C28: whenever cancel_debate sets the token of a run in flight, then, the
\* calls in flight returning, the decision's run comes to have emitted
\* exactly one debate-error event with the reason "Debate cancelled".
C28_CancelEventuallyReported ==
    \A r \in Runs :
        CancelledInFlight(r) ~> [](Cardinality(CancelEvents(r)) = 1)

Keys(registry) == {registry[i].key : i \in DOMAIN registry}

\* the command just answered with a result for an argument
Answered(cmd, arg, result) ==
    /\ reply' # reply
    /\ reply'.cmd = cmd /\ reply'.decision_id = arg /\ reply'.result = result

\* C29: in a registry seeded with the built-ins, after any create_custom_agent
\* and delete_custom_agent calls, the keys are pairwise distinct and every
\* built-in agent is still there; a create whose derived key is taken and a
\* delete of a built-in fail and leave the registry as it was.
C29_RegistryKeysDistinct ==
    /\ [](/\ Cardinality(Keys(agents_dir.registry)) = Len(agents_dir.registry)
          /\ \A i \in DOMAIN builtin_agents :
                \E j \in DOMAIN agents_dir.registry :
                    agents_dir.registry[j] = builtin_agents[i])
    /\ [][/\ \A label \in LabelInputs :
                (/\ reply' # reply
                 /\ reply'.cmd = "create_custom_agent" /\ reply'.decision_id = concat(label)
                 /\ any_key(agents_dir.registry, derive_key(label)))
                => /\ reply'.result # "ok"
                   /\ UNCHANGED agents_dir
          /\ \A i \in DOMAIN builtin_agents :
                (/\ reply' # reply
                 /\ reply'.cmd = "delete_custom_agent"
                 /\ reply'.decision_id = builtin_agents[i].key)
                => /\ reply'.result = "Cannot delete built-in agents"
                   /\ UNCHANGED agents_dir]_vars

\* two custom agents are registered, and the last call, a create under a
\* label whose key one of them holds, was refused
C29_Witness ==
    /\ Len(agents_dir.registry) = Len(builtin_agents) + 2
    /\ any_key(agents_dir.registry, "risk_officer")
    /\ reply = Reply("create_custom_agent", "risk-officer",
                     "An agent with key 'risk_officer' already exists")

\* the decisions that exist and belong to a conversation
OwnedBy(c) == {d \in Decisions : summary_json[d] # Absent /\ conversation_id[d] = c}

\* C30: delete_conversation(c) leaves no conversation c, no message of c, no
\* decision that c owned and no debate turn of such a decision, and changes
\* nothing of any other conversation: the other conversations, their
\* messages, their decisions and those decisions' turns are as before.
C30_DeleteConversationFrame ==
    [][\A c \in Conversations :
          (/\ reply' # reply
           /\ reply'.cmd = "delete_conversation" /\ reply'.decision_id = c)
          => /\ c \notin conversations'
             /\ \A x \in messages' : x.conversation_id # c
             /\ \A d \in OwnedBy(c) :
                   /\ summary_json'[d] = Absent
                   /\ \A x \in rounds' : x.decision_id # d
             /\ conversations' \ {c} = conversations \ {c}
             /\ {x \in messages' : x.conversation_id # c}
                   = {x \in messages : x.conversation_id # c}
             /\ \A d \in Decisions \ OwnedBy(c) :
                   /\ summary_json'[d] = summary_json[d]
                   /\ status'[d] = status[d] /\ summary'[d] = summary[d]
                   /\ brief'[d] = brief[d] /\ completed_at'[d] = completed_at[d]
                   /\ conversation_id'[d] = conversation_id[d]
                   /\ {x \in rounds' : x.decision_id = d}
                         = {x \in rounds : x.decision_id = d}]_vars

\* conversation cA was deleted: it is gone with its decision dA and without
\* a message or a turn left, while cB keeps its message, its decision dB
\* and dB's two turns
C30_Witness ==
    /\ reply = Reply("delete_conversation", "cA", "ok")
    /\ conversations = {"cB"}
    /\ conversation_id = [d \in Decisions |-> IF d = "dA" THEN "cA" ELSE "cB"]
    /\ summary_json["dA"] = Absent /\ summary_json["dB"] = StoredSummary
    /\ rounds = RowsOnFile("dB")
    /\ messages = {[id |-> 2, conversation_id |-> "cB"]}

\* C31: a run emits debate-started exactly once, as the first of its events
\* (before any turn or round-complete event), and in the step that emits it
\* the decision has no turn left from a prior run, holds the run's brief, and
\* has the status debating with the completion timestamp cleared.
C31_StartedOnceAfterSetup ==
    /\ [](\A r \in Runs :
            /\ Cardinality(EventsOf(r, "debate-started")) <= 1
            /\ run[r].pc \notin {"idle", "start"}
               => /\ Cardinality(EventsOf(r, "debate-started")) = 1
                  /\ events[r][1].type = "debate-started")
    /\ [][\A r \in Runs :
            EmitsNow(r, "debate-started")
            => /\ \A x \in rounds' : x.decision_id # DecisionOf(r)
               /\ brief'[DecisionOf(r)] = r
               /\ status'[DecisionOf(r)] = "debating"
               /\ ~completed_at'[DecisionOf(r)]]_vars

\* the second run of a decision has just emitted debate-started: the turns
\* the first run saved are cleared, the brief is the second run's, the
\* status is debating
C31_Witness ==
    /\ DecisionOf(1) = DecisionOf(2)
    /\ SavedTurns(1) # {}
    /\ events[2] = <<Event("debate-started", NoCoord, "", "")>>
    /\ RowsOf(DecisionOf(2)) = {}
    /\ brief[DecisionOf(2)] = 2
    /\ status[DecisionOf(2)] = "debating"

\* positions of the round-complete events of a round in what run r emitted
RoundCompletes(r, coord) ==
    {i \in EventsOf(r, "debate-round-complete") :
        <<events[r][i].round_number, events[r][i].exchange_number>> = coord}

\* positions at which debater a's turn or failure placeholder of a round was
\* emitted
Finished(r, coord, a) ==
    {i \in EventsOf(r, "debate-agent-response") :
        /\ <<events[r][i].round_number, events[r][i].exchange_number>> = coord
        /\ \/ events[r][i].agent = a
           \/ events[r][i].agent = ErrorAgent /\ events[r][i].content = a}

\* C32: a round emits round-complete at most once, exactly when every debater
\* of the roster has had its turn or its placeholder emitted in that round,
\* and after all of those events; a round left on cancellation, some debater
\* not yet called, has no round-complete; and a turn's event is emitted only
\* by a step that has the turn persisted.
C32_RoundCompleteAfterAllDebaters ==
    /\ [](\A r \in Runs : \A coord \in TurnCoords \ {ModeratorCoord} :
            /\ Cardinality(RoundCompletes(r, coord)) <= 1
            /\ (RoundCompletes(r, coord) # {})
                  <=> (Roster(r) # {} /\ \A a \in Roster(r) : Finished(r, coord, a) # {})
            /\ \A i \in RoundCompletes(r, coord) : \A a \in Roster(r) :
                  \E j \in Finished(r, coord, a) : j < i)
    /\ [][\A r \in Runs :
            \A i \in (Len(events[r]) + 1)..Len(events'[r]) :
               (events'[r][i].type = "debate-agent-response"
                /\ events'[r][i].agent # ErrorAgent)
               => Row(DecisionOf(r), r,
                      <<events'[r][i].round_number, events'[r][i].exchange_number>>,
                      events'[r][i].agent) \in rounds']_vars

\* a full run whose opening round completed with one placeholder was
\* cancelled inside the first exchange, after its first debater's turn: that
\* round has a turn and no round-complete
C32_Witness ==
    \E r \in Runs :
        /\ HaltedByCancellation(r) /\ ~run[r].quick_mode
        /\ Cardinality(RoundCompletes(r, <<1, 1>>)) = 1
        /\ FailedIn(r, <<1, 1>>) # {}
        /\ SpokeIn(r, <<2, 1>>) # {}
        /\ RoundCompletes(r, <<2, 1>>) = {}

\* a command for decision d leaves every other decision as it was: its
\* turns, its status, its registered token, and the runs debating it
OthersUntouched(d) ==
    \A o \in Decisions \ {d} :
        /\ status'[o] = status[o]
        /\ {x \in rounds' : x.decision_id = o} = RowsOf(o)
        /\ debate_cancel_flags'[o] = debate_cancel_flags[o]
        /\ \A r \in Runs :
              (run[r].pc # "idle" /\ DecisionOf(r) = o)
              => run'[r] = run[r] /\ cancel_flag'[r] = cancel_flag[r]

\* C33: with runs of two decisions in progress, cancel_debate and
\* start_debate for one decision never set the token polled by the other
\* decision's run, never move that run, and never change the other
\* decision's turns, status or registered token.
C33_OtherDecisionUntouched ==
    [][\A d \in Decisions :
          (cancel_debate(d) \/ start_debate(d, TRUE)) => OthersUntouched(d)]_vars

\* the run of dA was cancelled in flight while the run of dB went on to its
\* recommendation, its token never set and still registered
C33_Witness ==
    \E r, q \in Runs :
        /\ DecisionOf(r) = "dA" /\ DecisionOf(q) = "dB"
        /\ CancelledInFlight(r) /\ cancel_flag[r] /\ HaltedByCancellation(r)
        /\ Ended(q) /\ run[q].result = "ok" /\ ~cancel_flag[q]
        /\ run[q].cancelled_at[1] = "none"
        /\ status["dB"] = "recommended" /\ debate_cancel_flags["dB"] = q
        /\ RowsOf("dB") # {} /\ status["dA"] = "analyzing"

\* C34: within one run the roster and each persona's system prompt are fixed
\* at the debate start: once the roster is captured it never changes, every
\* call goes to a persona of it, and all the calls to one persona are given
\* the same system prompt, whatever is done to the registry and the prompt
\* files meanwhile
C34_RosterAndPromptsFixed ==
    /\ [](\A r \in Runs :
            \A i, j \in DOMAIN run[r].system_prompts :
                LET a == run[r].system_prompts[i]
                    b == run[r].system_prompts[j] IN
                /\ a.agent \in Range(run[r].debaters) \cup {Moderator}
                /\ a.agent = b.agent => a.system_prompt = b.system_prompt)
    /\ [][\A r \in Runs : run[r].pc \notin {"idle", "start"}
                            => run'[r].debaters = run[r].debaters]_vars

\* position of an agent in a registry
IndexIn(registry, a) == CHOOSE i \in DOMAIN registry : registry[i] = a

\* C35: the roster is the registry's debaters restricted to the selected
\* keys, in registry order whatever the order of the selection; a key listed
\* twice gives one speaker; an absent or empty selection gives all the
\* registry's debaters; the moderator is never on the roster
C35_RosterFromSelection ==
    (pure.fn = "debaters" /\ pure.done) =>
        LET registry == pure.registry
            sel == pure.selected_agent_keys
            roster == pure.result
            all == {a \in Range(registry) : a.role = "debater"}
            chosen == IF sel.some /\ sel.v # <<>>
                      THEN {a \in all : \E i \in DOMAIN sel.v : sel.v[i] = a.key}
                      ELSE all IN
        /\ Range(roster) = chosen
        /\ Len(roster) = Cardinality(chosen)
        /\ \A i, j \in DOMAIN roster :
              i < j => IndexIn(registry, roster[i]) < IndexIn(registry, roster[j])
        /\ \A i \in DOMAIN roster : roster[i].key # Moderator /\ roster[i].role # "moderator"

\* a selection in reverse registry order that names a persona twice and the
\* moderator
C35_Witness ==
    /\ pure.fn = "debaters" /\ pure.done
    /\ pure.selected_agent_keys = Some(<<"advocate", Moderator, "advocate">>)
    /\ KeysOf(pure.result) = <<"advocate">>

\* C36: every run that starts ends in the end, and once it has ended the
\* status of its decision is no longer debating, whichever way it ended
C36_RunEndsNotDebating ==
    /\ \A r \in Runs : (run[r].pc # "idle") ~> Ended(r)
    /\ [](\A r \in Runs : Ended(r) => status[run[r].decision_id] # "debating")

\* C37: when the selection matches no debater of the registry, run_debate
\* fails with "No debaters selected for the debate" before it has deleted
\* the prior turns, overwritten the brief, set the status debating or
\* emitted debate-started
C37_EmptyRosterFailsFirst ==
    [][\A r \in Runs :
          (BeginRun(r) /\ debaters(agents_dir.registry, run[r].selected_agent_keys) = <<>>)
          => /\ Ended(r)'
             /\ run'[r].result = "err"
             /\ events'[r] = Append(events[r], Event("debate-error", NoCoord, "", NoDebatersMsg))
             /\ UNCHANGED <<rounds, brief, status, completed_at>>]_vars

\* C38: cancel_debate for a decision with no run in flight (never started,
\* completed, cancelled before) leaves the decision's status as it was
C38_CancelWithoutRunKeepsStatus ==
    [][\A d \in Decisions :
          (cancel_debate(d) /\ ~\E r \in Runs : InFlight(r) /\ DecisionOf(r) = d)
          => status'[d] = status[d]]_vars

\* C39: whenever a run has ended with the status recommended, a debater turn
\* of that run is persisted; the moderator is asked to synthesize only when
\* the run has a debater turn
C39_RecommendedHasDebaterTurn ==
    \A r \in Runs :
        /\ ModeratorCoord \in Range(run[r].invoked) => run[r].all_rounds # <<>>
        /\ (Ended(r) /\ run[r].result = "ok" /\ status[DecisionOf(r)] = "recommended")
              => \E x \in rounds : x.run = r /\ x.agent # Moderator

\* the first and the last position of key string k in a section's entries
FirstWith(a, key, k) == CHOOSE i \in WithKey(a, key, k) : \A j \in WithKey(a, key, k) : i <= j
LastWith(a, key, k) == CHOOSE i \in WithKey(a, key, k) : \A j \in WithKey(a, key, k) : j <= i

\* C40: after any sequence of merges from a summary whose sections have
\* pairwise distinct keys, every section has at most one entry per key
\* value; an entry an update replaces keeps its position; entries with new
\* keys are appended at the end, in the order of the update
C40_MergeKeepsKeysDistinct ==
    (pure.fn = "merge_summary" /\ pure.cur # Panic) =>
        \A sec \in Sections :
            LET R == Entries(parse_existing(pure.cur), sec) IN
            /\ \A k \in EntryKeys : Cardinality(WithKey(R, sec.key, k)) <= 1
            /\ (pure.us # <<>> /\ HasArray(LastUpdate(pure), sec.array_key)) =>
                  LET P == Entries(parse_existing(pure.prev), sec)
                      U == Entries(LastUpdate(pure), sec)
                      old == {k \in EntryKeys : WithKey(P, sec.key, k) # {}}
                      new == Targets(LastUpdate(pure), sec) \ old IN
                  /\ Len(R) >= Len(P)
                  /\ \A i \in DOMAIN P :
                        IF \E k \in Targets(LastUpdate(pure), sec) : i \in WithKey(P, sec.key, k)
                        THEN \E k \in Targets(LastUpdate(pure), sec) :
                                /\ i \in WithKey(P, sec.key, k)
                                /\ R[i] = U[LastWith(U, sec.key, k)]
                        ELSE R[i] = P[i]
                  /\ \A k \in new : FirstWith(R, sec.key, k) > Len(P)
                  /\ \A k1, k2 \in new :
                        FirstWith(U, sec.key, k1) < FirstWith(U, sec.key, k2)
                        => FirstWith(R, sec.key, k1) < FirstWith(R, sec.key, k2)

\* two new keys appended in the order of the first update, one of them
\* replaced in place by the second update, which names it twice
C40_Witness ==
    /\ pure.fn = "merge_summary" /\ Len(pure.us) = 2
    /\ pure.s0 = to_string(EmptyObj)
    /\ pure.us[1] = JObj([options |-> JArr(<<Item("label", "Leave", 1), Item("label", "Stay", 1)>>)])
    /\ pure.us[2] = JObj([options |-> JArr(<<Item("label", "Leave", 2), Item("label", "Leave", 2)>>)])
    /\ parse_existing(pure.cur).f.options.a
          = <<Item("label", "Leave", 2), Item("label", "Stay", 1)>>

====
